---------------------------- MODULE Spec2Model ----------------------------
(***************************************************************************)
(* Plant-disease diagnosis chatbot: the diagnosis pipeline.                *)
(*                                                                         *)
(*   app/services/cache_service.py    CacheService   (Redis)               *)
(*   app/services/session_service.py  SessionService (in-memory dicts)     *)
(*   app/services/gemini_service.py   GeminiService.diagnose               *)
(*   app/handlers/message_handler.py  MessageHandler.process_diagnosis     *)
(*   app/handlers/line_handler.py     LineHandler event handlers           *)
(*                                                                         *)
(* Modelling conventions.                                                  *)
(*  - Time is a clock `now` counted in ticks, TicksPerHour ticks to the    *)
(*    wall-clock hour; strftime("%Y%m%d%H") is now \div TicksPerHour.      *)
(*  - LineHandler talks to session_service, MessageHandler to              *)
(*    cache_service: they are two different stores and are kept apart.     *)
(*  - A name that a module uses but that the source tree does not declare  *)
(*    (settings.gemini_fallback_models, settings.cache_expiry_hours,       *)
(*    UserInfo.region, DiagnosisResult.summary, the region keyword of      *)
(*    diagnose) is read the way the using code reads it.                   *)
(*  - One diagnosis run is in flight at a time; a model call is one step.  *)
(***************************************************************************)
EXTENDS Integers, Sequences, FiniteSets, TLC

\* ------------------------------------------------------------------ bounds
TicksPerHour == 1
MaxClock == 2
NumModels == 2
MaxRetries == 2
MaxRequestsPerHour == 2
MaxInfoLen == 1
CacheExpiryHours == 1
UserStateExpiryHours == 1
RetryDelay == 1

\* diagnosis runs explored per user and hour: one more than the limit
MaxRunsPerHour == MaxRequestsPerHour + 1

\* -------------------------------------------------------------- value sets
Users == {"u1"}
Images == {<<"x">>}
ContentTypes == {"image/jpeg"}
PlantTypes == {"RICE", "CORN"}
Regions == {"NORTH"}
PlantParts == {"LEAF"}
Confidences == {-5, 40, 85, 150}
Hours == 0..(MaxClock \div TicksPerHour)
Models == 1..NumModels

Absent == [has |-> FALSE]

\* PlantType(str, Enum).value and Region.value as byte strings
PlantTypeValue(p) == IF p = "RICE" THEN <<"K">> ELSE <<"K", "P">>

RegionValue(r) == <<"N">>

\* UserInfo(); region is read by process_diagnosis
EmptyUserInfo ==
  [plant_type |-> "None", plant_part |-> "None", region |-> "None",
   additional_info |-> "None"]

UserInfos == { [EmptyUserInfo EXCEPT !.plant_type = "CORN", !.region = "NORTH"] }

\* ------------------------------------------------------------------- state
VARIABLES
  now,              \* wall clock, in ticks
  user_states,      \* SessionService._user_states
  user_images,      \* SessionService._user_images
  user_info,        \* SessionService._user_info
  rate_limits,      \* SessionService._rate_limits
  redis_state,      \* Redis user:{id}:state
  redis_image,      \* Redis user:{id}:image + user:{id}:image_type
  redis_info,       \* Redis user:{id}:info
  redis_diagnosis,  \* Redis diagnosis:{md5}
  redis_rate,       \* Redis rate:{id}:{hour}
  diagnosis_cache,  \* MessageHandler._diagnosis_cache
  pc,               \* "idle" | "calling": position of the diagnosis run
  cur,              \* inputs of the run in flight
  model_idx,        \* diagnose: index into fallback_models
  attempt,          \* diagnose: attempt in range(max_retries)
  last_error,       \* diagnose: last_error
  ncalls,           \* model calls made so far by the run in flight
  prev,             \* the last of them: model, attempt and what came back
  done,             \* what the process_diagnosis that has just finished did
  reply,            \* what the handler that has just run replied
  started,          \* diagnosis runs started per user in the current hour
  probe             \* bookkeeping of the operation under test: its calls, inputs, outputs

sessVars == <<user_states, user_images, user_info, rate_limits>>
redisVars == <<redis_state, redis_image, redis_info, redis_diagnosis, redis_rate>>
runVars == <<pc, cur, model_idx, attempt, last_error, ncalls, prev, done>>
vars == <<now, sessVars, redisVars, diagnosis_cache, runVars, reply, started, probe>>

current_hour == now \div TicksPerHour

\* ----------------------------------------------------- run observation
NoError == [message |-> "None", user_message |-> "None", retryable |-> FALSE]

NoResult == [disease_name_th |-> "None", confidence_level |-> 0]

NoPayload == [complete |-> FALSE, confidence_level |-> 0]

NoResponse == [exc |-> "none", form |-> "none", data |-> NoPayload]

NoCall == [model |-> 0, attempt |-> 0, response |-> NoResponse]

NoRun ==
  [kind |-> "none", user |-> "None", key |-> << >>, result |-> NoResult,
   error |-> NoError, push |-> "None", rate_before |-> 0, rate_after |-> 0,
   ncalls |-> 0, last_call |-> NoCall, before_last |-> NoCall]

NoInputs == [user |-> "None", key |-> << >>, rate_before |-> 0]

NoProbe == [op |-> "none"]

\* `done` describes the step that has just been taken; any later step drops it
Observed == done' = NoRun /\ reply' = "None"

\* ----------------------------------------------------- Redis primitives
\* SETEX key ttl value
Setex(val, hours) == [has |-> TRUE, val |-> val, exp |-> now + hours * TicksPerHour]

\* GET key: a key whose expiry has passed is gone
RedisGet(e) == IF e.has /\ now < e.exp THEN e ELSE Absent

\* keys dropped by Redis when the clock reaches t
ExpireAt(f, t) == [k \in DOMAIN f |-> IF f[k].has /\ f[k].exp <= t THEN Absent ELSE f[k]]

\* ---------------------------------------------------------- CacheService
\* expire_hours or <default>: None and 0 (both written 0 here) give the default
ExpireHours(expire_hours, default) == IF expire_hours = 0 THEN default ELSE expire_hours

UserStates ==
  {"IDLE", "WAITING_FOR_IMAGE", "WAITING_FOR_PLANT_TYPE", "WAITING_FOR_PLANT_PART",
   "PROCESSING", "COMPLETED"}

\* UserState(str, Enum): member -> .value, and UserState(value) -> member
UserStateValue(st) ==
  CASE st = "IDLE" -> "idle"
    [] st = "WAITING_FOR_IMAGE" -> "waiting_for_image"
    [] st = "WAITING_FOR_PLANT_TYPE" -> "waiting_for_plant_type"
    [] st = "WAITING_FOR_PLANT_PART" -> "waiting_for_plant_part"
    [] st = "PROCESSING" -> "processing"
    [] st = "COMPLETED" -> "completed"

UserStateOf(v) == CHOOSE st \in UserStates : UserStateValue(st) = v

\* UserInfo.model_dump_json / UserInfo.model_validate_json
UserInfo_dump_json(info) ==
  <<info.plant_type, info.plant_part, info.region, info.additional_info>>

UserInfo_validate_json(s) ==
  [plant_type |-> s[1], plant_part |-> s[2], region |-> s[3], additional_info |-> s[4]]

\* the entries the three setters write
Cache_state_entry(st, expire_hours) ==
  Setex(UserStateValue(st), ExpireHours(expire_hours, UserStateExpiryHours))

Cache_image_entry(img, ct, expire_hours) ==
  Setex([image_data |-> img, content_type |-> ct],
        ExpireHours(expire_hours, UserStateExpiryHours))

Cache_info_entry(info, expire_hours) ==
  Setex(UserInfo_dump_json(info), ExpireHours(expire_hours, UserStateExpiryHours))

\* if state: return UserState(state.decode())
Cache_get_user_state(u) ==
  IF RedisGet(redis_state[u]).has /\ redis_state[u].val # ""
  THEN UserStateOf(redis_state[u].val) ELSE "IDLE"

Cache_set_user_state(u, st) ==
  redis_state' = [redis_state EXCEPT ![u] = Cache_state_entry(st, 0)]

\* (image_data, content_type) if both are truthy, else (None, None)
Cache_get_user_image(u) ==
  IF /\ RedisGet(redis_image[u]).has
     /\ Len(redis_image[u].val.image_data) > 0
     /\ redis_image[u].val.content_type # ""
  THEN redis_image[u] ELSE Absent

Cache_get_user_info(u) ==
  IF RedisGet(redis_info[u]).has
  THEN UserInfo_validate_json(redis_info[u].val) ELSE EmptyUserInfo

Cache_set_user_image(u, img, ct) ==
  /\ pc = "idle"
  /\ redis_image' = [redis_image EXCEPT ![u] = Cache_image_entry(img, ct, 0)]
  /\ Observed
  /\ UNCHANGED <<now, sessVars, redis_state, redis_info, redis_diagnosis, redis_rate,
                 diagnosis_cache, pc, cur, model_idx, attempt, last_error, ncalls, prev,
                 started, probe>>

Cache_set_user_info(u, info) ==
  /\ pc = "idle"
  /\ redis_info' = [redis_info EXCEPT ![u] = Cache_info_entry(info, 0)]
  /\ Observed
  /\ UNCHANGED <<now, sessVars, redis_state, redis_image, redis_diagnosis, redis_rate,
                 diagnosis_cache, pc, cur, model_idx, attempt, last_error, ncalls, prev,
                 started, probe>>

\* variant: the region is left out of the hashed content
generate_diagnosis_key_noregion(image_data, plant_type, region) ==
  image_data \o plant_type

\* md5 is taken to be injective: the key is the hashed byte string itself
generate_diagnosis_key(image_data, plant_type, region) ==
  image_data \o plant_type \o region

DiagnosisKeys ==
  { generate_diagnosis_key(i, PlantTypeValue(p), r) :
      i \in Images, p \in PlantTypes, r \in {<< >>} \cup {RegionValue(x) : x \in Regions} }

\* variant: the confidence is not serialised
model_dump_json_lossy(r) == <<r.disease_name_th, 0>>

\* DiagnosisResult.model_dump_json / model_validate_json
model_dump_json(r) == <<r.disease_name_th, r.confidence_level>>

model_validate_json(s) == [disease_name_th |-> s[1], confidence_level |-> s[2]]

get_cached_diagnosis(key) ==
  IF RedisGet(redis_diagnosis[key]).has
  THEN [has |-> TRUE, val |-> model_validate_json(redis_diagnosis[key].val)]
  ELSE Absent

\* variant: the caller's expire_hours is ignored
Diagnosis_entry_default(result, expire_hours) ==
  Setex(model_dump_json(result), CacheExpiryHours)

\* expire = expire_hours or settings.cache_expiry_hours; SETEX key expire*3600 json
Diagnosis_entry(result, expire_hours) ==
  Setex(model_dump_json(result), ExpireHours(expire_hours, CacheExpiryHours))

cache_diagnosis(key, result) ==
  redis_diagnosis' = [redis_diagnosis EXCEPT ![key] = Diagnosis_entry(result, 0)]

RateCount(u, h) == IF RedisGet(redis_rate[u][h]).has THEN redis_rate[u][h].val ELSE 0

\* max_req = max_requests or settings.max_requests_per_hour: an argument
\* that is None or 0 gives the configured limit (0 stands for both here)
Cache_check_rate_limit(u, max_requests) ==
  LET max_req == IF max_requests = 0 THEN MaxRequestsPerHour ELSE max_requests
      count == RateCount(u, current_hour)
  IN [is_allowed |-> count < max_req,
      remaining |-> IF max_req - count > 0 THEN max_req - count ELSE 0]

\* variant: the counter is left alone
Cache_increment_rate_counter_skip(u) == redis_rate' = redis_rate

\* INCR key; EXPIRE key 3600 when the key was just created
Cache_increment_rate_counter(u) ==
  redis_rate' = [redis_rate EXCEPT ![u][current_hour] =
     IF RedisGet(@).has
     THEN [@ EXCEPT !.val = @ + 1]
     ELSE [has |-> TRUE, val |-> 1, exp |-> now + TicksPerHour]]

\* --------------------------------------------------------- GeminiService
\* what model.generate_content does: raises, or returns a response text
JsonPayloads ==
  { [complete |-> TRUE, confidence_level |-> 85],
    [complete |-> TRUE, confidence_level |-> 40],
    [complete |-> TRUE, confidence_level |-> 150],
    [complete |-> TRUE, confidence_level |-> -5],
    [complete |-> FALSE, confidence_level |-> 85] }

Responses ==
  [exc : {"ResourceExhausted", "ServiceUnavailable", "Exception"},
   form : {"none"}, data : {NoPayload}]
  \cup [exc : {"none"}, form : {"empty", "nonjson"}, data : {NoPayload}]
  \cup [exc : {"none"}, form : {"json"}, data : JsonPayloads]

GeminiAPIError(message, retryable) ==
  [message |-> message, user_message |-> "api_error", retryable |-> retryable]

\* variant: the upper limit of confidence_level is not enforced
model_validate_ok_unbounded(data) ==
  /\ data.complete
  /\ data.confidence_level >= 0

\* DiagnosisResult.model_validate: required fields present, 0 <= confidence_level <= 100
model_validate_ok(data) ==
  /\ data.complete
  /\ data.confidence_level >= 0
  /\ data.confidence_level <= 100

DiagnosisResultOf(data) ==
  [disease_name_th |-> "blast", confidence_level |-> data.confidence_level]

\* variant: decoded JSON is taken without validation
parse_response_lenient(resp) ==
  IF resp.form # "json"
  THEN [ok |-> FALSE, error |-> GeminiAPIError("Invalid JSON response", TRUE)]
  ELSE [ok |-> TRUE, result |-> DiagnosisResultOf(resp.data)]

\* variant: a JSON decode failure is marked non-retryable
parse_response_strict(resp) ==
  IF resp.form # "json"
  THEN [ok |-> FALSE, error |-> GeminiAPIError("Invalid JSON response", FALSE)]
  ELSE IF ~model_validate_ok(resp.data)
       THEN [ok |-> FALSE, error |-> GeminiAPIError("Response validation failed", FALSE)]
       ELSE [ok |-> TRUE, result |-> DiagnosisResultOf(resp.data)]

\* json.loads + model_validate; a failure is a GeminiAPIError
parse_response(resp) ==
  IF resp.form # "json"
  THEN [ok |-> FALSE, error |-> GeminiAPIError("Invalid JSON response", TRUE)]
  ELSE IF ~model_validate_ok(resp.data)
       THEN [ok |-> FALSE, error |-> GeminiAPIError("Response validation failed", FALSE)]
       ELSE [ok |-> TRUE, result |-> DiagnosisResultOf(resp.data)]

\* one pass through the try/except of the attempt loop:
\*   ctl = "return"   the result is returned
\*   ctl = "break"    the attempt loop is left for the next model
\*   ctl = "continue" the attempt loop goes on (it ends after the last attempt)
\* delay = self.retry_delay * (2 ** attempt)
RECURSIVE Pow2(_)
Pow2(k) == IF k = 0 THEN 1 ELSE 2 * Pow2(k - 1)

\* variant: the wait is made after the last attempt as well
Backoff_always(k) == RetryDelay * Pow2(k)

\* if attempt < self.max_retries - 1: await asyncio.sleep(delay)
Backoff(k) == IF k < MaxRetries - 1 THEN RetryDelay * Pow2(k) ELSE 0

\* variant: quota-exceeded is retried like any other failure
AfterResourceExhausted_retry(resp) ==
  [ctl |-> "continue", delay |-> 0,
   error |-> GeminiAPIError("API Rate Limit or Service error: " \o resp.exc, TRUE)]

AfterResourceExhausted(resp) ==
  [ctl |-> "break", delay |-> 0,
   error |-> GeminiAPIError("API Rate Limit or Service error: " \o resp.exc, TRUE)]

\* variant: service-unavailable leaves the model at once
AfterServiceUnavailable_break(resp, k) ==
  [ctl |-> "break", delay |-> 0,
   error |-> GeminiAPIError("API Rate Limit or Service error: " \o resp.exc, TRUE)]

AfterServiceUnavailable(resp, k) ==
  [ctl |-> IF k < MaxRetries - 1 THEN "continue" ELSE "break", delay |-> Backoff(k),
   error |-> GeminiAPIError("API Rate Limit or Service error: " \o resp.exc, TRUE)]

\* variant: the retryable flag is not looked at
AfterGeminiAPIError_retry(e, k) == [ctl |-> "continue", delay |-> Backoff(k), error |-> e]

AfterGeminiAPIError(e, k) ==
  IF ~e.retryable
  THEN [ctl |-> "break", delay |-> 0, error |-> e]
  ELSE [ctl |-> "continue", delay |-> Backoff(k), error |-> e]

AfterException(resp, k) ==
  [ctl |-> "continue", delay |-> Backoff(k), error |-> GeminiAPIError("unexpected", TRUE)]

\* variant: a response that validates does not end the run
Attempt_goes_on(resp, k) ==
  IF resp.exc = "ResourceExhausted" THEN AfterResourceExhausted(resp)
  ELSE IF resp.exc = "ServiceUnavailable" THEN AfterServiceUnavailable(resp, k)
  ELSE IF resp.exc = "Exception" THEN AfterException(resp, k)
  ELSE IF resp.form = "empty"
       THEN AfterGeminiAPIError(GeminiAPIError("Empty response from Gemini", TRUE), k)
  ELSE IF parse_response(resp).ok
       THEN [ctl |-> "break", delay |-> 0, error |-> NoError]
       ELSE AfterGeminiAPIError(parse_response(resp).error, k)

Attempt(resp, k) ==
  IF resp.exc = "ResourceExhausted" THEN AfterResourceExhausted(resp)
  ELSE IF resp.exc = "ServiceUnavailable" THEN AfterServiceUnavailable(resp, k)
  ELSE IF resp.exc = "Exception" THEN AfterException(resp, k)
  ELSE IF resp.form = "empty"
       THEN AfterGeminiAPIError(GeminiAPIError("Empty response from Gemini", TRUE), k)
  ELSE IF parse_response(resp).ok
       THEN [ctl |-> "return", delay |-> 0, result |-> parse_response(resp).result]
       ELSE AfterGeminiAPIError(parse_response(resp).error, k)

\* variant: exhaustion always raises the generic non-retryable error
RaisedError_exhausted(e) == GeminiAPIError("All fallback models failed", FALSE)

\* raise last_error or GeminiAPIError("All fallback models failed", retryable=False)
RaisedError(e) ==
  IF e # NoError THEN e ELSE GeminiAPIError("All fallback models failed", FALSE)

\* -------------------------------------------------------- MessageHandler
RateCountIn(rate, t, u) ==
  IF rate[u][t \div TicksPerHour].has /\ t < rate[u][t \div TicksPerHour].exp
  THEN rate[u][t \div TicksPerHour].val ELSE 0

PushFor(result) ==
  IF result.confidence_level < 50 THEN "low_confidence" ELSE "diagnosis_result"

\* lines 139-161: last-result slot, rate counter, push, state COMPLETED
DeliverResult(u, key, result, kind, before, n, c) ==
  /\ diagnosis_cache' = [diagnosis_cache EXCEPT ![u] = [has |-> TRUE, val |-> result]]
  /\ Cache_increment_rate_counter(u)
  /\ Cache_set_user_state(u, "COMPLETED")
  /\ done' = [kind |-> kind, user |-> u, key |-> key, result |-> result,
              error |-> NoError, push |-> PushFor(result), rate_before |-> before,
              rate_after |-> RateCountIn(redis_rate', now, u),
              ncalls |-> n, last_call |-> c, before_last |-> prev]

\* variant: the failure path counts the request as well
DeliverGeminiError_counted(u, key, e, before, n, c) ==
  /\ Cache_set_user_state(u, "IDLE")
  /\ Cache_increment_rate_counter(u)
  /\ done' = [kind |-> "gemini_error", user |-> u, key |-> key, result |-> NoResult,
              error |-> e, push |-> e.user_message, rate_before |-> before,
              rate_after |-> RateCountIn(redis_rate', now, u),
              ncalls |-> n, last_call |-> c, before_last |-> prev]
  /\ UNCHANGED <<diagnosis_cache, redis_diagnosis>>

\* lines 163-169: except GeminiAPIError
DeliverGeminiError(u, key, e, before, n, c) ==
  /\ Cache_set_user_state(u, "IDLE")
  /\ done' = [kind |-> "gemini_error", user |-> u, key |-> key, result |-> NoResult,
              error |-> e, push |-> e.user_message, rate_before |-> before,
              rate_after |-> RateCountIn(redis_rate, now, u),
              ncalls |-> n, last_call |-> c, before_last |-> prev]
  /\ UNCHANGED <<diagnosis_cache, redis_rate, redis_diagnosis>>

\* variant: the session-expired path counts the request
SessionExpired_counted(u) ==
  /\ redis_state' = [redis_state EXCEPT ![u] = Absent]
  /\ redis_image' = [redis_image EXCEPT ![u] = Absent]
  /\ redis_info' = [redis_info EXCEPT ![u] = Absent]
  /\ Cache_increment_rate_counter(u)
  /\ done' = [NoRun EXCEPT !.kind = "session_expired", !.user = u,
                           !.push = "session_expired",
                           !.rate_before = RateCountIn(redis_rate, now, u),
                           !.rate_after = RateCountIn(redis_rate', now, u)]
  /\ UNCHANGED <<redis_diagnosis, diagnosis_cache, pc, cur, model_idx,
                 attempt, last_error, ncalls, prev, started>>

\* lines 97-105: no stored image
SessionExpired(u) ==
  /\ redis_state' = [redis_state EXCEPT ![u] = Absent]
  /\ redis_image' = [redis_image EXCEPT ![u] = Absent]
  /\ redis_info' = [redis_info EXCEPT ![u] = Absent]
  /\ done' = [NoRun EXCEPT !.kind = "session_expired", !.user = u,
                           !.push = "session_expired",
                           !.rate_before = RateCountIn(redis_rate, now, u),
                           !.rate_after = RateCountIn(redis_rate, now, u)]
  /\ UNCHANGED <<redis_diagnosis, redis_rate, diagnosis_cache, pc, cur, model_idx,
                 attempt, last_error, ncalls, prev, started>>

RequestKey(u) ==
  LET info == Cache_get_user_info(u)
      plant_type == IF info.plant_type = "None" THEN "RICE" ELSE info.plant_type
      region == IF info.region = "None" THEN << >> ELSE RegionValue(info.region)
  IN generate_diagnosis_key(Cache_get_user_image(u).val.image_data,
                            PlantTypeValue(plant_type), region)

\* process_diagnosis up to the first model call
process_diagnosis(u) ==
  IF ~Cache_get_user_image(u).has
  THEN SessionExpired(u)
  ELSE /\ started[u] < MaxRunsPerHour
       /\ started' = [started EXCEPT ![u] = @ + 1]
       /\ ncalls' = 0
       /\ prev' = NoCall
       /\ UNCHANGED <<redis_image, redis_info>>
       /\ IF get_cached_diagnosis(RequestKey(u)).has
          THEN /\ DeliverResult(u, RequestKey(u), get_cached_diagnosis(RequestKey(u)).val,
                                "cache_hit", RateCountIn(redis_rate, now, u), 0, NoCall)
               /\ UNCHANGED <<redis_diagnosis, pc, cur, model_idx, attempt, last_error>>
          ELSE /\ pc' = "calling"
               /\ cur' = [user |-> u, key |-> RequestKey(u),
                          rate_before |-> RateCountIn(redis_rate, now, u)]
               /\ model_idx' = 1
               /\ attempt' = 0
               /\ last_error' = NoError
               /\ done' = NoRun
               /\ UNCHANGED <<redis_state, redis_diagnosis, redis_rate, diagnosis_cache>>

\* the locals of diagnose are gone once it has returned or raised
DiagnoseLeft ==
  /\ pc' = "idle"
  /\ cur' = NoInputs
  /\ model_idx' = 1
  /\ attempt' = 0
  /\ last_error' = NoError
  /\ ncalls' = 0
  /\ prev' = NoCall

\* one model call of diagnose and what follows it; when diagnose returns or
\* raises, the rest of process_diagnosis runs in the same step
ModelCall ==
  /\ pc = "calling"
  /\ \E resp \in Responses :
       LET o == Attempt(resp, attempt)
           c == [model |-> model_idx, attempt |-> attempt, response |-> resp]
       IN
       IF o.ctl = "return"
       THEN /\ cache_diagnosis(cur.key, o.result)
            /\ DeliverResult(cur.user, cur.key, o.result, "diagnosed", cur.rate_before,
                             ncalls + 1, c)
            /\ DiagnoseLeft
       ELSE IF o.ctl = "continue" /\ attempt < MaxRetries - 1
       THEN /\ attempt' = attempt + 1
            /\ last_error' = o.error
            /\ ncalls' = ncalls + 1
            /\ prev' = c
            /\ UNCHANGED <<pc, cur, model_idx, done, redis_state, redis_diagnosis,
                           redis_rate, diagnosis_cache>>
       ELSE IF model_idx < NumModels
       THEN /\ model_idx' = model_idx + 1
            /\ attempt' = 0
            /\ last_error' = o.error
            /\ ncalls' = ncalls + 1
            /\ prev' = c
            /\ UNCHANGED <<pc, cur, done, redis_state, redis_diagnosis, redis_rate,
                           diagnosis_cache>>
       ELSE /\ DeliverGeminiError(cur.user, cur.key, RaisedError(o.error),
                                  cur.rate_before, ncalls + 1, c)
            /\ DiagnoseLeft
  /\ reply' = "None"
  /\ UNCHANGED <<now, sessVars, redis_image, redis_info, started, probe>>

\* a caller invokes process_diagnosis for a user
RunDiagnosis(u) ==
  /\ pc = "idle"
  /\ process_diagnosis(u)
  /\ reply' = "None"
  /\ UNCHANGED <<now, sessVars, probe>>

\* -------------------------------------------------------- SessionService
\* variant: an entry is still served at the instant of its expiry
Live_inclusive(e) == e.has /\ now <= e.exp

\* datetime.utcnow() < expiry
Live(e) == e.has /\ now < e.exp

\* hours = expire_hours or 1; expiry = utcnow() + timedelta(hours=hours)
SessionEntryFor(val, expire_hours) ==
  [has |-> TRUE, val |-> val, exp |-> now + ExpireHours(expire_hours, 1) * TicksPerHour]

SessionEntry(val) == SessionEntryFor(val, 0)

\* a getter deletes the entry it finds expired
AfterGet(store, u) == IF store[u].has /\ ~Live(store[u]) THEN [store EXCEPT ![u] = Absent] ELSE store

Session_get_user_state(u) == IF Live(user_states[u]) THEN user_states[u].val ELSE "IDLE"

Session_get_user_image(u) == IF Live(user_images[u]) THEN user_images[u] ELSE Absent

Session_get_user_info(u) == IF Live(user_info[u]) THEN user_info[u].val ELSE EmptyUserInfo

\* variant: the limit itself is still allowed
Session_check_rate_limit_inclusive(u, max_requests) ==
  [is_allowed |-> rate_limits[u][current_hour] <= max_requests,
   remaining |-> IF max_requests - rate_limits[u][current_hour] > 0
                 THEN max_requests - rate_limits[u][current_hour] ELSE 0]

Session_check_rate_limit(u, max_requests) ==
  [is_allowed |-> rate_limits[u][current_hour] < max_requests,
   remaining |-> IF max_requests - rate_limits[u][current_hour] > 0
                 THEN max_requests - rate_limits[u][current_hour] ELSE 0]

\* counts[hour_key] = counts.get(hour_key, 0) + 1
Session_increment_rate_counter(u) ==
  rate_limits' = [rate_limits EXCEPT ![u][current_hour] = @ + 1]

\* variant: the three dicts are emptied
Session_clear_user_session_all(u) ==
  /\ user_states' = [v \in DOMAIN user_states |-> Absent]
  /\ user_images' = [v \in DOMAIN user_images |-> Absent]
  /\ user_info' = [v \in DOMAIN user_info |-> Absent]

\* self._user_states.pop(user_id, None), and so for images and info
Session_clear_user_session(u) ==
  /\ user_states' = [user_states EXCEPT ![u] = Absent]
  /\ user_images' = [user_images EXCEPT ![u] = Absent]
  /\ user_info' = [user_info EXCEPT ![u] = Absent]

\* ----------------------------------------------------------------- parsers
Texts == {"hello", "help", "rice", "skip", "leaf"}

is_greeting(t) == t = "hello"

is_help_request(t) == t = "help"

is_skip_command(t) == t = "skip"

\* a text is the sequence of its pieces (syllables, words, blanks); Thai is
\* written in transliteration: khao = ข้าว, phot = โพด, man = มัน, ...
Tokens(t) == <<t>>

\* str.lower() on a piece
Lower(tok) ==
  CASE tok = "RICE" -> "rice"
    [] tok = "CORN" -> "corn"
    [] tok = "OTHER" -> "other"
    [] OTHER -> tok

\* text.lower().strip()
RECURSIVE Strip(_)
Strip(text) ==
  IF text = << >> THEN text
  ELSE IF Head(text) = " " THEN Strip(Tail(text))
  ELSE IF text[Len(text)] = " " THEN Strip(SubSeq(text, 1, Len(text) - 1))
  ELSE text

LowerStrip(text) == Strip([i \in 1..Len(text) |-> Lower(text[i])])

\* key in text_lower
Contains(text, key) ==
  \E i \in 0..(Len(text) - Len(key)) : SubSeq(text, i + 1, i + Len(key)) = key

\* thai_mappings, in the order of the dict literal
thai_mappings ==
  << [key |-> <<"khao">>, plant_type |-> "RICE"],
     [key |-> <<"khao", "phot">>, plant_type |-> "CORN"],
     [key |-> <<"khao", "phot", "liang", "sat">>, plant_type |-> "CORN"],
     [key |-> <<"man", "sampalang">>, plant_type |-> "CASSAVA"],
     [key |-> <<"man">>, plant_type |-> "CASSAVA"],
     [key |-> <<"oi">>, plant_type |-> "SUGARCANE"],
     [key |-> <<"phuet", "phak">>, plant_type |-> "VEGETABLE"],
     [key |-> <<"phak">>, plant_type |-> "VEGETABLE"],
     [key |-> <<"mai", "phon">>, plant_type |-> "FRUIT"],
     [key |-> <<"phon", "mai">>, plant_type |-> "FRUIT"] >>

\* english_mappings, in the order of the dict literal
english_mappings ==
  << [key |-> <<"rice">>, plant_type |-> "RICE"],
     [key |-> <<"corn">>, plant_type |-> "CORN"],
     [key |-> <<"maize">>, plant_type |-> "CORN"],
     [key |-> <<"cassava">>, plant_type |-> "CASSAVA"],
     [key |-> <<"sugarcane">>, plant_type |-> "SUGARCANE"],
     [key |-> <<"sugar", " ", "cane">>, plant_type |-> "SUGARCANE"],
     [key |-> <<"vegetable">>, plant_type |-> "VEGETABLE"],
     [key |-> <<"fruit">>, plant_type |-> "FRUIT"] >>

\* PlantType member names, lower-cased, in the order of the enum
enum_names ==
  << [key |-> <<"rice">>, plant_type |-> "RICE"],
     [key |-> <<"corn">>, plant_type |-> "CORN"],
     [key |-> <<"cassava">>, plant_type |-> "CASSAVA"],
     [key |-> <<"sugarcane">>, plant_type |-> "SUGARCANE"],
     [key |-> <<"vegetable">>, plant_type |-> "VEGETABLE"],
     [key |-> <<"fruit">>, plant_type |-> "FRUIT"],
     [key |-> <<"other">>, plant_type |-> "OTHER"] >>

\* for key, plant_type in mappings.items(): if key in text_lower: return
FirstContained(mappings, text) ==
  LET hits == { i \in 1..Len(mappings) : Contains(text, mappings[i].key) }
  IN IF hits = {} THEN "None"
     ELSE mappings[CHOOSE i \in hits : \A j \in hits : i <= j].plant_type

\* for plant_type in PlantType: if plant_type.name.lower() == text_lower
FirstEqual(mappings, text) ==
  LET hits == { i \in 1..Len(mappings) : mappings[i].key = text }
  IN IF hits = {} THEN "None"
     ELSE mappings[CHOOSE i \in hits : \A j \in hits : i <= j].plant_type

parse_plant_type(text) ==
  LET text_lower == LowerStrip(text)
  IN IF FirstContained(thai_mappings, text_lower) # "None"
     THEN FirstContained(thai_mappings, text_lower)
     ELSE IF FirstContained(english_mappings, text_lower) # "None"
     THEN FirstContained(english_mappings, text_lower)
     ELSE FirstEqual(enum_names, text_lower)

\* additional_info is kept as the list of the pieces appended to it
InfoText(a) == IF a = "None" THEN << >> ELSE a

\* ------------------------------------------------------------- LineHandler
\* what image_service.process_line_image gives for the message
Downloads ==
  [ok : {TRUE}, image_data : Images, content_type : ContentTypes]
  \cup {[ok |-> FALSE, image_data |-> << >>, content_type |-> "ImageValidationError"],
        [ok |-> FALSE, image_data |-> << >>, content_type |-> "Exception"]}

\* _proceed_to_diagnosis: processing reply, state PROCESSING, process_diagnosis
proceed_to_diagnosis(u, states) ==
  /\ reply' = "processing"
  /\ user_states' = [states EXCEPT ![u] = SessionEntry("PROCESSING")]
  /\ process_diagnosis(u)

\* _set_plant_type_and_proceed
set_plant_type_and_proceed(u, plant_type, states) ==
  /\ user_info' = [user_info EXCEPT
        ![u] = SessionEntry([Session_get_user_info(u) EXCEPT !.plant_type = plant_type])]
  /\ user_states' = [states EXCEPT ![u] = SessionEntry("WAITING_FOR_PLANT_PART")]
  /\ reply' = "plant_part_request"

\* variant: a failed download or validation drops the pending image
handle_image_message_drop(u, dl) ==
  /\ pc = "idle"
  /\ done' = NoRun
  /\ IF ~Session_check_rate_limit(u, MaxRequestsPerHour).is_allowed
     THEN /\ reply' = "rate_limit_exceeded"
          /\ UNCHANGED <<user_images, user_states>>
     ELSE IF ~dl.ok
     THEN /\ reply' = (IF dl.content_type = "ImageValidationError"
                       THEN "invalid_image" ELSE "api_error")
          /\ user_images' = [user_images EXCEPT ![u] = Absent]
          /\ user_states' = [user_states EXCEPT ![u] = Absent]
     ELSE /\ user_images' = [user_images EXCEPT
                 ![u] = SessionEntry([image_data |-> dl.image_data,
                                      content_type |-> dl.content_type])]
          /\ user_states' = [user_states EXCEPT ![u] = SessionEntry("WAITING_FOR_PLANT_TYPE")]
          /\ reply' = "info_request"
  /\ UNCHANGED <<now, user_info, rate_limits, redisVars, diagnosis_cache, pc, cur,
                 model_idx, attempt, last_error, ncalls, prev, started, probe>>

handle_image_message(u, dl) ==
  /\ pc = "idle"
  /\ done' = NoRun
  /\ IF ~Session_check_rate_limit(u, MaxRequestsPerHour).is_allowed
     THEN /\ reply' = "rate_limit_exceeded"
          /\ UNCHANGED <<user_images, user_states>>
     ELSE IF ~dl.ok
     THEN /\ reply' = (IF dl.content_type = "ImageValidationError"
                       THEN "invalid_image" ELSE "api_error")
          /\ UNCHANGED <<user_images, user_states>>
     ELSE /\ user_images' = [user_images EXCEPT
                 ![u] = SessionEntry([image_data |-> dl.image_data,
                                      content_type |-> dl.content_type])]
          /\ user_states' = [user_states EXCEPT ![u] = SessionEntry("WAITING_FOR_PLANT_TYPE")]
          /\ reply' = "info_request"
  /\ UNCHANGED <<now, user_info, rate_limits, redisVars, diagnosis_cache, pc, cur,
                 model_idx, attempt, last_error, ncalls, prev, started, probe>>

RunUntouched ==
  UNCHANGED <<redisVars, diagnosis_cache, pc, cur, model_idx, attempt, last_error,
              ncalls, prev, started>>

handle_text_message(u, text) ==
  /\ pc = "idle"
  /\ IF is_greeting(text) \/ is_help_request(text)
     THEN /\ reply' = "welcome"
          /\ done' = NoRun
          /\ UNCHANGED <<user_states, user_info>>
          /\ RunUntouched
     ELSE IF Session_get_user_state(u) = "WAITING_FOR_PLANT_TYPE"
     THEN /\ done' = NoRun
          /\ RunUntouched
          /\ IF parse_plant_type(Tokens(text)) # "None"
             THEN set_plant_type_and_proceed(u, parse_plant_type(Tokens(text)), user_states)
             ELSE /\ user_info' = [AfterGet(user_info, u) EXCEPT
                        ![u] = SessionEntry([Session_get_user_info(u) EXCEPT
                                  !.additional_info = <<"type:" \o text>>])]
                  /\ user_states' = [user_states EXCEPT
                        ![u] = SessionEntry("WAITING_FOR_PLANT_PART")]
                  /\ reply' = "plant_part_request"
     ELSE IF Session_get_user_state(u) = "WAITING_FOR_PLANT_PART"
     THEN IF is_skip_command(text)
          THEN /\ proceed_to_diagnosis(u, user_states)
               /\ user_info' = user_info
          ELSE /\ Len(InfoText(Session_get_user_info(u).additional_info)) < MaxInfoLen
               /\ user_info' = [user_info EXCEPT
                     ![u] = SessionEntry([Session_get_user_info(u) EXCEPT
                               !.additional_info = Append(InfoText(@), "part:" \o text)])]
               /\ proceed_to_diagnosis(u, user_states)
     ELSE /\ reply' = "send_image_prompt"
          /\ done' = NoRun
          /\ user_states' = AfterGet(user_states, u)
          /\ user_info' = user_info
          /\ RunUntouched
  /\ UNCHANGED <<now, user_images, rate_limits, probe>>

\* postback data, after parse_postback_data
Postbacks ==
  [key : {"plant_type"}, value : {"RICE", "other", "BANANA"}]
  \cup [key : {"plant_part"}, value : {"LEAF", "skip", "FLOWER"}]
  \cup [key : {"show_treatment", "show_diagnosis", "new_diagnosis", "retry"}, value : {"1"}]

handle_postback(u, data) ==
  /\ pc = "idle"
  /\ IF data.key = "plant_type"
     THEN /\ done' = NoRun
          /\ RunUntouched
          /\ IF data.value = "other"
             THEN /\ user_states' = [user_states EXCEPT
                        ![u] = SessionEntry("WAITING_FOR_PLANT_TYPE")]
                  /\ reply' = "type_plant_name"
                  /\ UNCHANGED <<user_info, user_images>>
             ELSE IF data.value \in PlantTypes
             THEN /\ set_plant_type_and_proceed(u, data.value, user_states)
                  /\ UNCHANGED user_images
             ELSE /\ reply' = "unknown_plant_type"
                  /\ UNCHANGED <<user_states, user_info, user_images>>
     ELSE IF data.key = "plant_part"
     THEN /\ UNCHANGED user_images
          /\ IF data.value \in PlantParts
             THEN /\ user_info' = [user_info EXCEPT
                        ![u] = SessionEntry([Session_get_user_info(u) EXCEPT
                                  !.plant_part = data.value])]
                  /\ proceed_to_diagnosis(u, user_states)
             ELSE /\ user_info' = user_info
                  /\ proceed_to_diagnosis(u, user_states)
     ELSE IF data.key \in {"show_treatment", "show_diagnosis"}
     THEN /\ reply' = (IF diagnosis_cache[u].has THEN data.key ELSE "no_result_found")
          /\ done' = NoRun
          /\ RunUntouched
          /\ UNCHANGED <<user_states, user_info, user_images>>
     ELSE /\ Session_clear_user_session(u)
          /\ reply' = "send_image_prompt"
          /\ done' = NoRun
          /\ RunUntouched
  /\ UNCHANGED <<now, rate_limits, probe>>

\* ------------------------------------------------------------------ clock
Tick ==
  /\ pc = "idle"
  /\ now < MaxClock
  /\ now' = now + 1
  /\ redis_state' = ExpireAt(redis_state, now + 1)
  /\ redis_image' = ExpireAt(redis_image, now + 1)
  /\ redis_info' = ExpireAt(redis_info, now + 1)
  /\ redis_diagnosis' = ExpireAt(redis_diagnosis, now + 1)
  /\ redis_rate' = [u \in DOMAIN redis_rate |-> ExpireAt(redis_rate[u], now + 1)]
  /\ started' = IF (now + 1) \div TicksPerHour # current_hour
                THEN [u \in DOMAIN started |-> 0] ELSE started
  /\ Observed
  /\ UNCHANGED <<sessVars, diagnosis_cache, pc, cur, model_idx, attempt, last_error,
                 ncalls, prev, probe>>

\* ---------------------------------------------------------- specification
InitProgram ==
  /\ now = 0
  /\ user_states = [u \in Users |-> Absent]
  /\ user_images = [u \in Users |-> Absent]
  /\ user_info = [u \in Users |-> Absent]
  /\ rate_limits = [u \in Users |-> [h \in Hours |-> 0]]
  /\ redis_state = [u \in Users |-> Absent]
  /\ redis_image = [u \in Users |-> Absent]
  /\ redis_info = [u \in Users |-> Absent]
  /\ redis_diagnosis = [k \in DiagnosisKeys |-> Absent]
  /\ redis_rate = [u \in Users |-> [h \in Hours |-> Absent]]
  /\ diagnosis_cache = [u \in Users |-> Absent]
  /\ pc = "idle"
  /\ cur = NoInputs
  /\ model_idx = 1
  /\ attempt = 0
  /\ last_error = NoError
  /\ ncalls = 0
  /\ prev = NoCall
  /\ done = NoRun
  /\ reply = "None"
  /\ started = [u \in Users |-> 0]

Init ==
  /\ InitProgram
  /\ probe = NoProbe

NextPipeline ==
  \/ \E u \in Users, i \in Images, ct \in ContentTypes : Cache_set_user_image(u, i, ct)
  \/ \E u \in Users, info \in UserInfos : Cache_set_user_info(u, info)
  \/ \E u \in Users : RunDiagnosis(u)
  \/ ModelCall
  \/ Tick

SpecPipeline == Init /\ [][NextPipeline]_vars

Next ==
  \/ \E u \in Users, dl \in Downloads : handle_image_message(u, dl)
  \/ \E u \in Users, t \in Texts : handle_text_message(u, t)
  \/ \E u \in Users, d \in Postbacks : handle_postback(u, d)
  \/ \E u \in Users, i \in Images, ct \in ContentTypes : Cache_set_user_image(u, i, ct)
  \/ ModelCall
  \/ Tick

Spec == Init /\ [][Next]_vars

\* ------------------------------------------------ functions on their own
\* the program's state stays as constructed while one function is applied
ProgramUnchanged ==
  UNCHANGED <<now, sessVars, redisVars, diagnosis_cache, runVars, reply, started>>

\* -- the result-cache key of two requests
MaxImageLen == 2

\* image bytes share the alphabet of the plant-type and region values
KeyBytes == {"x", "K", "P", "N"}

RECURSIVE BytesUpTo(_)
BytesUpTo(n) ==
  IF n = 0 THEN {<< >>}
  ELSE BytesUpTo(n - 1)
         \cup { Append(b, c) : b \in { x \in BytesUpTo(n - 1) : Len(x) = n - 1 }, c \in KeyBytes }

KeyRequests ==
  [image_data : BytesUpTo(MaxImageLen), plant_type : PlantTypes,
   region : {"None"} \cup Regions]

\* the key process_diagnosis asks the cache for: plant_type.value and
\* region.value if region else None
KeyOf(req) ==
  generate_diagnosis_key(req.image_data, PlantTypeValue(req.plant_type),
                         IF req.region = "None" THEN << >> ELSE RegionValue(req.region))

InitKeys ==
  /\ InitProgram
  /\ probe \in [op : {"key"}, applied : {FALSE}, a : KeyRequests, b : KeyRequests,
                 key_a : {<< >>}, key_b : {<< >>}]

ApplyKey ==
  /\ probe.op = "key"
  /\ ~probe.applied
  /\ probe' = [probe EXCEPT !.applied = TRUE, !.key_a = KeyOf(probe.a),
                            !.key_b = KeyOf(probe.b)]
  /\ ProgramUnchanged

NextKeys == ApplyKey

SpecKeys == InitKeys /\ [][NextKeys]_vars

\* ----------------------------------------------- rate limiter on its own
\* the two rate limiters driven directly: increment calls and the clock
RateUsers == {"u1", "u2"}

RateServices == {"session", "cache"}

\* increment calls explored in one behaviour: enough to pass the limit
MaxRateCalls == MaxRequestsPerHour + 2

RateProbe ==
  [op |-> "rate", total |-> 0,
   calls |-> [svc \in RateServices |-> [u \in RateUsers |-> [h \in Hours |-> 0]]]]

RateCalled(svc, u) ==
  probe' = [probe EXCEPT !.total = @ + 1, !.calls[svc][u][current_hour] = @ + 1]

RateFrame ==
  UNCHANGED <<now, user_states, user_images, user_info, redis_state, redis_image,
              redis_info, redis_diagnosis, diagnosis_cache, runVars, reply, started>>

SessionIncrement(u) ==
  /\ probe.total < MaxRateCalls
  /\ Session_increment_rate_counter(u)
  /\ RateCalled("session", u)
  /\ UNCHANGED redis_rate
  /\ RateFrame

CacheIncrement(u) ==
  /\ probe.total < MaxRateCalls
  /\ Cache_increment_rate_counter(u)
  /\ RateCalled("cache", u)
  /\ UNCHANGED rate_limits
  /\ RateFrame

InitRate ==
  /\ now = 0
  /\ user_states = [u \in Users |-> Absent]
  /\ user_images = [u \in Users |-> Absent]
  /\ user_info = [u \in Users |-> Absent]
  /\ rate_limits = [u \in RateUsers |-> [h \in Hours |-> 0]]
  /\ redis_state = [u \in Users |-> Absent]
  /\ redis_image = [u \in Users |-> Absent]
  /\ redis_info = [u \in Users |-> Absent]
  /\ redis_diagnosis = [k \in DiagnosisKeys |-> Absent]
  /\ redis_rate = [u \in RateUsers |-> [h \in Hours |-> Absent]]
  /\ diagnosis_cache = [u \in Users |-> Absent]
  /\ pc = "idle"
  /\ cur = NoInputs
  /\ model_idx = 1
  /\ attempt = 0
  /\ last_error = NoError
  /\ ncalls = 0
  /\ prev = NoCall
  /\ done = NoRun
  /\ reply = "None"
  /\ started = [u \in RateUsers |-> 0]
  /\ probe = RateProbe

NextRate ==
  \/ \E u \in RateUsers : SessionIncrement(u)
  \/ \E u \in RateUsers : CacheIncrement(u)
  \/ Tick

SpecRate == InitRate /\ [][NextRate]_vars

\* ----------------------------------------------- session stores on their own
\* one entry kind of one of the two session stores driven directly for two
\* users: set, get, clear and the clock
StoreUsers == {"u1", "u2"}

StoreServices == {"session", "cache"}

StoreKinds == {"state", "image", "info"}

\* writes explored in one behaviour: a value and the one that replaces it
MaxStoreWrites == 2

\* expire_hours: None, or two hours
StoreHours == {0, 2}

\* images are what process_line_image hands over: never empty
StoreValues(kind) ==
  CASE kind = "state" -> {"WAITING_FOR_PLANT_TYPE", "PROCESSING"}
    [] kind = "image" -> { [image_data |-> i, content_type |-> "image/jpeg"] :
                             i \in {<<"x">>, <<"x", "K">>} }
    [] kind = "info" -> { [EmptyUserInfo EXCEPT !.plant_type = p] : p \in PlantTypes }

NoRead == [has |-> FALSE]

\* what a get of the entry answers in the current state
StoreGet(svc, kind, u) ==
  CASE svc = "session" /\ kind = "state" -> Session_get_user_state(u)
    [] svc = "session" /\ kind = "image" ->
         IF Session_get_user_image(u).has
         THEN [has |-> TRUE, val |-> Session_get_user_image(u).val] ELSE Absent
    [] svc = "session" /\ kind = "info" -> Session_get_user_info(u)
    [] svc = "cache" /\ kind = "state" -> Cache_get_user_state(u)
    [] svc = "cache" /\ kind = "image" ->
         IF Cache_get_user_image(u).has
         THEN [has |-> TRUE, val |-> Cache_get_user_image(u).val] ELSE Absent
    [] svc = "cache" /\ kind = "info" -> Cache_get_user_info(u)

StoreFrame == UNCHANGED <<now, rate_limits, redis_diagnosis, redis_rate, diagnosis_cache,
                          runVars, reply, started>>

\* set_user_state / set_user_image / set_user_info of the store under test
StoreSet(u, val, expire_hours) ==
  LET svc == probe.svc
      kind == probe.kind
  IN
  /\ probe.writes < MaxStoreWrites
  /\ user_states' = IF svc = "session" /\ kind = "state"
                    THEN [user_states EXCEPT ![u] = SessionEntryFor(val, expire_hours)]
                    ELSE user_states
  /\ user_images' = IF svc = "session" /\ kind = "image"
                    THEN [user_images EXCEPT ![u] = SessionEntryFor(val, expire_hours)]
                    ELSE user_images
  /\ user_info' = IF svc = "session" /\ kind = "info"
                  THEN [user_info EXCEPT ![u] = SessionEntryFor(val, expire_hours)]
                  ELSE user_info
  /\ redis_state' = IF svc = "cache" /\ kind = "state"
                    THEN [redis_state EXCEPT ![u] = Cache_state_entry(val, expire_hours)]
                    ELSE redis_state
  /\ redis_image' = IF svc = "cache" /\ kind = "image"
                    THEN [redis_image EXCEPT ![u] =
                            Cache_image_entry(val.image_data, val.content_type, expire_hours)]
                    ELSE redis_image
  /\ redis_info' = IF svc = "cache" /\ kind = "info"
                   THEN [redis_info EXCEPT ![u] = Cache_info_entry(val, expire_hours)]
                   ELSE redis_info
  /\ probe' = [probe EXCEPT
        !.writes = @ + 1, !.got = NoRead,
        !.last[u] =
           [has |-> TRUE, val |-> val,
            exp |-> now + (IF expire_hours = 0 THEN UserStateExpiryHours
                           ELSE expire_hours) * TicksPerHour]]
  /\ StoreFrame

\* get_user_state / get_user_image / get_user_info of the store under test;
\* the in-memory store deletes the entry it finds expired
StoreRead(u) ==
  LET svc == probe.svc
      kind == probe.kind
  IN
  /\ probe' = [probe EXCEPT !.got = [has |-> TRUE, user |-> u,
                                     val |-> StoreGet(svc, kind, u)]]
  /\ user_states' = IF svc = "session" /\ kind = "state"
                    THEN AfterGet(user_states, u) ELSE user_states
  /\ user_images' = IF svc = "session" /\ kind = "image"
                    THEN AfterGet(user_images, u) ELSE user_images
  /\ user_info' = IF svc = "session" /\ kind = "info"
                  THEN AfterGet(user_info, u) ELSE user_info
  /\ UNCHANGED <<redis_state, redis_image, redis_info>>
  /\ StoreFrame

\* clear_user_session of the store under test
StoreClear(u) ==
  /\ probe.last[u].has
  /\ IF probe.svc = "session"
     THEN /\ user_states' = [user_states EXCEPT ![u] = Absent]
          /\ user_images' = [user_images EXCEPT ![u] = Absent]
          /\ user_info' = [user_info EXCEPT ![u] = Absent]
          /\ UNCHANGED <<redis_state, redis_image, redis_info>>
     ELSE /\ redis_state' = [redis_state EXCEPT ![u] = Absent]
          /\ redis_image' = [redis_image EXCEPT ![u] = Absent]
          /\ redis_info' = [redis_info EXCEPT ![u] = Absent]
          /\ UNCHANGED <<user_states, user_images, user_info>>
  /\ probe' = [probe EXCEPT !.got = NoRead, !.last[u] = Absent]
  /\ StoreFrame

StoreTick ==
  /\ Tick
  /\ probe' = [probe EXCEPT !.got = NoRead]

InitStore ==
  /\ now = 0
  /\ user_states = [u \in StoreUsers |-> Absent]
  /\ user_images = [u \in StoreUsers |-> Absent]
  /\ user_info = [u \in StoreUsers |-> Absent]
  /\ rate_limits = [u \in Users |-> [h \in Hours |-> 0]]
  /\ redis_state = [u \in StoreUsers |-> Absent]
  /\ redis_image = [u \in StoreUsers |-> Absent]
  /\ redis_info = [u \in StoreUsers |-> Absent]
  /\ redis_diagnosis = [k \in DiagnosisKeys |-> Absent]
  /\ redis_rate = [u \in Users |-> [h \in Hours |-> Absent]]
  /\ diagnosis_cache = [u \in Users |-> Absent]
  /\ pc = "idle"
  /\ cur = NoInputs
  /\ model_idx = 1
  /\ attempt = 0
  /\ last_error = NoError
  /\ ncalls = 0
  /\ prev = NoCall
  /\ done = NoRun
  /\ reply = "None"
  /\ started = [u \in Users |-> 0]
  /\ probe \in [op : {"store"}, svc : StoreServices, kind : StoreKinds, writes : {0},
                 got : {NoRead}, last : {[u \in StoreUsers |-> Absent]}]

NextStore ==
  \/ \E u \in StoreUsers : \E val \in StoreValues(probe.kind), h \in StoreHours :
       StoreSet(u, val, h)
  \/ \E u \in StoreUsers : StoreRead(u)
  \/ \E u \in StoreUsers : StoreClear(u)
  \/ StoreTick

SpecStore == InitStore /\ [][NextStore]_vars

\* ------------------------------------------------ result cache on its own
\* cache_diagnosis and get_cached_diagnosis driven directly, and the clock
CacheRequests ==
  [image_data : {<<"x">>, <<"x", "K">>}, plant_type : PlantTypes,
   region : {"None"} \cup Regions]

CacheResults == { DiagnosisResultOf([confidence_level |-> c]) : c \in {40, 85} }

\* puts explored in one behaviour: a result and the one that replaces it
MaxCachePuts == 2

CacheProbe ==
  [op |-> "cache", puts |-> 0, got |-> NoRead,
   last |-> [req \in CacheRequests |-> Absent]]

CacheFrame ==
  UNCHANGED <<now, sessVars, redis_state, redis_image, redis_info, redis_rate,
              diagnosis_cache, runVars, reply, started>>

\* cache_diagnosis(image_data, plant_type, region, result, expire_hours)
CachePut(req, result, expire_hours) ==
  /\ probe.puts < MaxCachePuts
  /\ redis_diagnosis' = [redis_diagnosis EXCEPT ![KeyOf(req)] =
                           Diagnosis_entry(result, expire_hours)]
  /\ probe' = [probe EXCEPT
        !.puts = @ + 1, !.got = NoRead,
        !.last[req] = [has |-> TRUE, val |-> result,
                       exp |-> now + (IF expire_hours = 0 THEN CacheExpiryHours
                                      ELSE expire_hours) * TicksPerHour]]
  /\ CacheFrame

\* get_cached_diagnosis(image_data, plant_type, region)
CacheGet(req) ==
  /\ probe' = [probe EXCEPT !.got = [has |-> TRUE, req |-> req,
                                     val |-> get_cached_diagnosis(KeyOf(req))]]
  /\ UNCHANGED redis_diagnosis
  /\ CacheFrame

CacheTick ==
  /\ Tick
  /\ probe' = [probe EXCEPT !.got = NoRead]

InitCache ==
  /\ now = 0
  /\ user_states = [u \in Users |-> Absent]
  /\ user_images = [u \in Users |-> Absent]
  /\ user_info = [u \in Users |-> Absent]
  /\ rate_limits = [u \in Users |-> [h \in Hours |-> 0]]
  /\ redis_state = [u \in Users |-> Absent]
  /\ redis_image = [u \in Users |-> Absent]
  /\ redis_info = [u \in Users |-> Absent]
  /\ redis_diagnosis = [k \in {KeyOf(req) : req \in CacheRequests} |-> Absent]
  /\ redis_rate = [u \in Users |-> [h \in Hours |-> Absent]]
  /\ diagnosis_cache = [u \in Users |-> Absent]
  /\ pc = "idle"
  /\ cur = NoInputs
  /\ model_idx = 1
  /\ attempt = 0
  /\ last_error = NoError
  /\ ncalls = 0
  /\ prev = NoCall
  /\ done = NoRun
  /\ reply = "None"
  /\ started = [u \in Users |-> 0]
  /\ probe = CacheProbe

NextCache ==
  \/ \E req \in CacheRequests, result \in CacheResults, h \in StoreHours :
       CachePut(req, result, h)
  \/ \E req \in CacheRequests : CacheGet(req)
  \/ CacheTick

SpecCache == InitCache /\ [][NextCache]_vars

\* ---------------------------------------------------- webhook on its own
\* POST /webhook driven directly
MaxWebhookRequests == 2

WebhookEvents == {"text", "image", "postback", "follow"}

RECURSIVE EventsUpTo(_)
EventsUpTo(n) ==
  IF n = 0 THEN {<< >>}
  ELSE EventsUpTo(n - 1)
         \cup { Append(b, e) : b \in { x \in EventsUpTo(n - 1) : Len(x) = n - 1 },
                               e \in WebhookEvents }

\* request bodies: the events they carry
WebhookBodies == EventsUpTo(2)

\* the base64 HMAC-SHA256 of the body under the channel secret
SignatureOf(body) == <<"hmac">> \o body

\* X-Line-Signature: absent (read as "", written << >>), not a signature at
\* all, or the signature of some body
WebhookSignatures ==
  {<< >>, <<"invalid_signature">>} \cup { SignatureOf(b) : b \in EventsUpTo(1) }

WebhookRequests == [body : WebhookBodies, signature : WebhookSignatures]

SignatureVerifies(req) == req.signature = SignatureOf(req.body)

\* WebhookHandler.handle: raises on a signature that does not verify, runs
\* the registered handler of every event otherwise
WebhookHandler_handle(req) ==
  IF SignatureVerifies(req)
  THEN [raised |-> "None", handled |-> Len(req.body)]
  ELSE [raised |-> "InvalidSignatureError", handled |-> 0]

\* LineHandler.handle_webhook is a coroutine function: calling it makes a
\* coroutine object, and its body runs only when that object is awaited
handle_webhook(req, awaited) ==
  IF awaited THEN WebhookHandler_handle(req) ELSE [raised |-> "None", handled |-> 0]

\* webhook(request): the call at line 233 is not awaited
webhook(req) ==
  IF req.signature = << >>
  THEN [status_code |-> 400, detail |-> "Missing X-Line-Signature header", handled |-> 0]
  ELSE LET r == handle_webhook(req, FALSE)
       IN IF r.raised = "InvalidSignatureError"
          THEN [status_code |-> 400, detail |-> "Invalid signature", handled |-> r.handled]
          ELSE [status_code |-> 200, detail |-> "ok", handled |-> r.handled]

NoRequest == [body |-> << >>, signature |-> << >>]

WebhookProbe ==
  [op |-> "webhook", served |-> 0, req |-> NoRequest,
   response |-> [status_code |-> 0, detail |-> "None", handled |-> 0]]

WebhookPost(req) ==
  /\ probe.op = "webhook"
  /\ probe.served < MaxWebhookRequests
  /\ probe' = [probe EXCEPT !.served = @ + 1, !.req = req, !.response = webhook(req)]
  /\ ProgramUnchanged

InitWebhook ==
  /\ InitProgram
  /\ probe = WebhookProbe

NextWebhook == \E req \in WebhookRequests : WebhookPost(req)

SpecWebhook == InitWebhook /\ [][NextWebhook]_vars

\* ------------------------------------------------ image intake on its own
\* process_line_image applied to one downloaded image
\* settings.image_max_dimension, in pixels
MaxDimension == 2

\* sides explored: up to more than twice the maximum
MaxSide == 2 * MaxDimension + 1

\* settings.max_image_size_bytes, in units of the smallest encoded image; as
\* with the defaults (5 MB for at most 1024 x 1024 pixels) no encoding of an
\* image within max_dimension exceeds it
MaxSizeBytes == MaxDimension * MaxDimension + 1

SUPPORTED_FORMATS == {"image/jpeg", "image/png", "image/webp", "image/jpg"}

DeclaredTypes == SUPPORTED_FORMATS \cup {"image/gif"}

\* what the bytes are: a file of some format, or not an image at all
FileFormats == {"JPEG", "PNG", "GIF", "None"}

\* the formats named by SUPPORTED_FORMATS / EXTENSION_MAP
SupportedFileFormats == {"JPEG", "PNG", "WEBP"}

\* downloaded bytes, described by what a decoder can see in them:
\* truncated = the header is whole but the pixel data is cut short;
\* orientation = the EXIF orientation tag (6 is a quarter turn)
RawImages ==
  [format : FileFormats, truncated : BOOLEAN, width : 1..MaxSide, height : 1..MaxSide,
   size : {1, MaxSizeBytes, MaxSizeBytes + 1}, orientation : {1, 6}]

\* Image.open(...) identifies the format from the bytes; img.verify() checks
\* chunk checksums for PNG and does not read the pixel data of other formats
image_open_verify(img) ==
  /\ img.format # "None"
  /\ ~(img.format = "PNG" /\ img.truncated)

validate_image(img, content_type) ==
  IF content_type \notin SUPPORTED_FORMATS
  THEN [ok |-> FALSE, error |-> "Unsupported format", user_message |-> "invalid_image_format"]
  ELSE IF img.size > MaxSizeBytes
  THEN [ok |-> FALSE, error |-> "Image too large", user_message |-> "image_too_large"]
  ELSE IF ~image_open_verify(img)
  THEN [ok |-> FALSE, error |-> "Invalid image", user_message |-> "invalid_image_format"]
  ELSE [ok |-> TRUE, error |-> "None", user_message |-> "None"]

\* ImageOps.exif_transpose: a quarter turn swaps the sides
exif_transpose(img) ==
  IF img.orientation = 6 THEN <<img.height, img.width>> ELSE <<img.width, img.height>>

\* _resize_image: int(height * (max_dimension / width)) truncates
resize_image(size) ==
  LET width == size[1]
      height == size[2]
  IN IF width <= MaxDimension /\ height <= MaxDimension THEN size
     ELSE IF width > height
     THEN <<MaxDimension, (height * MaxDimension) \div width>>
     ELSE <<(width * MaxDimension) \div height, MaxDimension>>

\* lengths the encoder can produce for an image of this size
EncodedSizes(size) == 1..(1 + size[1] * size[2])

NoOutput == [width |-> 0, height |-> 0, size |-> 0, content_type |-> "None"]

\* optimize_image: the pixel data is read (a truncated file raises OSError),
\* the image is turned, resized (a side of 0 raises ValueError) and encoded
\* as JPEG in n bytes
optimize_image(img, n) ==
  LET size == resize_image(exif_transpose(img))
  IN IF img.truncated
     THEN [raised |-> "OSError", out |-> NoOutput]
     ELSE IF size[1] < 1 \/ size[2] < 1
     THEN [raised |-> "ValueError", out |-> NoOutput]
     ELSE [raised |-> "None",
           out |-> [width |-> size[1], height |-> size[2], size |-> n,
                    content_type |-> "image/jpeg"]]

\* encoded lengths process_line_image can come out with
OutputSizes(img, content_type) ==
  IF validate_image(img, content_type).ok /\ optimize_image(img, 1).raised = "None"
  THEN EncodedSizes(resize_image(exif_transpose(img)))
  ELSE {0}

\* process_line_image after the download: validate, then optimize
process_line_image(img, content_type, n) ==
  LET v == validate_image(img, content_type)
  IN IF ~v.ok
     THEN [validation |-> v, optimized |-> FALSE, raised |-> "ImageValidationError",
           out |-> NoOutput]
     ELSE [validation |-> v, optimized |-> TRUE, raised |-> optimize_image(img, n).raised,
           out |-> optimize_image(img, n).out]

NoProcessed ==
  [validation |-> [ok |-> FALSE, error |-> "None", user_message |-> "None"],
   optimized |-> FALSE, raised |-> "None", out |-> NoOutput]

InitImage ==
  /\ InitProgram
  /\ probe \in [op : {"image"}, applied : {FALSE}, image : RawImages,
                 content_type : DeclaredTypes, result : {NoProcessed}]

ProcessLineImage ==
  /\ probe.op = "image"
  /\ ~probe.applied
  /\ \E n \in OutputSizes(probe.image, probe.content_type) :
       probe' = [probe EXCEPT !.applied = TRUE,
                    !.result = process_line_image(probe.image, probe.content_type, n)]
  /\ ProgramUnchanged

NextImage == ProcessLineImage

SpecImage == InitImage /\ [][NextImage]_vars

\* -------------------------------------------- parse_plant_type on its own
MaxTextLen == 3

TextPieces == {"khao", "phot", "man", "sampalang", "na", "rice", "RICE", "other", " "}

RECURSIVE TextsUpTo(_)
TextsUpTo(n) ==
  IF n = 0 THEN {<< >>}
  ELSE TextsUpTo(n - 1)
         \cup { Append(b, c) : b \in { x \in TextsUpTo(n - 1) : Len(x) = n - 1 },
                               c \in TextPieces }

InitParse ==
  /\ InitProgram
  /\ probe \in [op : {"parse"}, applied : {FALSE}, text : TextsUpTo(MaxTextLen),
                 result : {"None"}]

ApplyParse ==
  /\ probe.op = "parse"
  /\ ~probe.applied
  /\ probe' = [probe EXCEPT !.applied = TRUE, !.result = parse_plant_type(probe.text)]
  /\ ProgramUnchanged

NextParse == ApplyParse

SpecParse == InitParse /\ [][NextParse]_vars

\* ------------------------------------------------------ diagnose on its own
\* GeminiService.diagnose driven directly: one step per model call
DiagnoseArgs ==
  [plant_type : PlantTypes \cup {"None"}, plant_part : PlantParts \cup {"None"}]

\* variant: the attempt loop runs once more
LastAttempt_late(k) == k >= MaxRetries

\* for attempt in range(self.max_retries): k is the last value of the range
LastAttempt(k) == k >= MaxRetries - 1

\* where the two loops stand after an attempt that did not return
NextPosition(o, m, k) ==
  IF o.ctl = "continue" /\ ~LastAttempt(k)
  THEN [over |-> FALSE, model |-> m, attempt |-> k + 1]
  ELSE IF m < NumModels
  THEN [over |-> FALSE, model |-> m + 1, attempt |-> 0]
  ELSE [over |-> TRUE, model |-> m, attempt |-> k]

NoLast == [has |-> FALSE]

DiagnoseFrame ==
  UNCHANGED <<now, sessVars, redisVars, diagnosis_cache, cur, prev, done, reply, started>>

\* one model call of diagnose and the except branch or return that follows
DiagnoseCall ==
  /\ probe.op = "diagnose"
  /\ pc = "calling"
  /\ \E resp \in Responses :
       LET o == Attempt(resp, attempt)
           nxt == NextPosition(o, model_idx, attempt)
           call == [model |-> model_idx, valid |-> parse_response(resp).ok /\ resp.exc = "none"
                                                   /\ resp.form = "json"]
           last == [has |-> TRUE, model |-> model_idx, attempt |-> attempt,
                    response |-> resp, delay |-> o.delay]
       IN
       /\ ncalls' = ncalls + 1
       /\ IF o.ctl = "return"
          THEN /\ pc' = "idle"
               /\ UNCHANGED <<model_idx, attempt, last_error>>
               /\ probe' = [probe EXCEPT !.status = "returned", !.result = o.result,
                                         !.calls = Append(@, call), !.last = last]
          ELSE IF ~nxt.over
          THEN /\ model_idx' = nxt.model
               /\ attempt' = nxt.attempt
               /\ last_error' = o.error
               /\ pc' = pc
               /\ probe' = [probe EXCEPT !.calls = Append(@, call), !.last = last]
          ELSE /\ pc' = "idle"
               /\ last_error' = o.error
               /\ UNCHANGED <<model_idx, attempt>>
               /\ probe' = [probe EXCEPT !.status = "raised", !.error = RaisedError(o.error),
                                         !.calls = Append(@, call), !.last = last]
  /\ DiagnoseFrame

InitDiagnose ==
  /\ now = 0
  /\ user_states = [u \in Users |-> Absent]
  /\ user_images = [u \in Users |-> Absent]
  /\ user_info = [u \in Users |-> Absent]
  /\ rate_limits = [u \in Users |-> [h \in Hours |-> 0]]
  /\ redis_state = [u \in Users |-> Absent]
  /\ redis_image = [u \in Users |-> Absent]
  /\ redis_info = [u \in Users |-> Absent]
  /\ redis_diagnosis = [k \in DiagnosisKeys |-> Absent]
  /\ redis_rate = [u \in Users |-> [h \in Hours |-> Absent]]
  /\ diagnosis_cache = [u \in Users |-> Absent]
  /\ pc = "calling"
  /\ cur = NoInputs
  /\ model_idx = 1
  /\ attempt = 0
  /\ last_error = NoError
  /\ ncalls = 0
  /\ prev = NoCall
  /\ done = NoRun
  /\ reply = "None"
  /\ started = [u \in Users |-> 0]
  /\ probe \in [op : {"diagnose"}, args : DiagnoseArgs, status : {"running"},
                 calls : {<< >>}, last : {NoLast}, result : {NoResult}, error : {NoError}]

NextDiagnose == DiagnoseCall

SpecDiagnose == InitDiagnose /\ [][NextDiagnose]_vars

\* every model call returns
SpecDiagnoseFair == SpecDiagnose /\ WF_vars(DiagnoseCall)

\* ------------------------------------------------ sessions of two users
\* the event handlers for two users; the rate counters of one of the two
\* services are driven directly, since no handler increments the counter
\* that image intake checks
MaxSessionCounts == 2

\* increment_rate_counter of the service under test
CountRequest(u) ==
  /\ probe.total < MaxSessionCounts
  /\ IF probe.svc = "session"
     THEN Session_increment_rate_counter(u) /\ UNCHANGED redis_rate
     ELSE Cache_increment_rate_counter(u) /\ UNCHANGED rate_limits
  /\ probe' = [probe EXCEPT !.total = @ + 1]
  /\ RateFrame

\* cache_service.set_user_info called for a user
StoreInfo(u, info) ==
  /\ probe.svc = "cache"
  /\ Cache_set_user_info(u, info)

\* the postbacks that write or clear session entries
SessionPostbacks ==
  { d \in Postbacks : d.key \in {"new_diagnosis", "retry"} \/ d.value \in {"RICE", "LEAF"} }

InitSession ==
  /\ now = 0
  /\ user_states = [u \in RateUsers |-> Absent]
  /\ user_images = [u \in RateUsers |-> Absent]
  /\ user_info = [u \in RateUsers |-> Absent]
  /\ rate_limits = [u \in RateUsers |-> [h \in Hours |-> 0]]
  /\ redis_state = [u \in RateUsers |-> Absent]
  /\ redis_image = [u \in RateUsers |-> Absent]
  /\ redis_info = [u \in RateUsers |-> Absent]
  /\ redis_diagnosis = [k \in DiagnosisKeys |-> Absent]
  /\ redis_rate = [u \in RateUsers |-> [h \in Hours |-> Absent]]
  /\ diagnosis_cache = [u \in RateUsers |-> Absent]
  /\ pc = "idle"
  /\ cur = NoInputs
  /\ model_idx = 1
  /\ attempt = 0
  /\ last_error = NoError
  /\ ncalls = 0
  /\ prev = NoCall
  /\ done = NoRun
  /\ reply = "None"
  /\ started = [u \in RateUsers |-> 0]
  /\ probe \in [op : {"session"}, svc : RateServices, total : {0}]

NextSession ==
  \/ \E u \in RateUsers, dl \in Downloads : handle_image_message(u, dl)
  \/ \E u \in RateUsers, d \in SessionPostbacks : handle_postback(u, d)
  \/ \E u \in RateUsers : CountRequest(u)
  \/ \E u \in RateUsers, info \in UserInfos : StoreInfo(u, info)

SpecSession == InitSession /\ [][NextSession]_vars

\* ------------------------------------------- a postback during a diagnosis
\* process_diagnosis awaits the model; meanwhile the event loop handles a
\* new_diagnosis or retry postback of the same user
\* variant: the postback abandons the run in flight
ConcurrentClear_cancel(u, d) ==
  /\ pc = "calling"
  /\ cur.user = u
  /\ d.key \in {"new_diagnosis", "retry"}
  /\ Session_clear_user_session(u)
  /\ reply' = "send_image_prompt"
  /\ DiagnoseLeft
  /\ UNCHANGED <<now, rate_limits, redisVars, diagnosis_cache, done, started, probe>>

\* elif data.get("new_diagnosis") / elif data.get("retry")
ConcurrentClear(u, d) ==
  /\ pc = "calling"
  /\ cur.user = u
  /\ d.key \in {"new_diagnosis", "retry"}
  /\ Session_clear_user_session(u)
  /\ reply' = "send_image_prompt"
  /\ UNCHANGED <<now, rate_limits, redisVars, diagnosis_cache, runVars, started, probe>>

\* postbacks that clear the session
ClearPostbacks == [key : {"new_diagnosis", "retry"}, value : {"1"}]

ConcurrentProbe == [op |-> "concurrent"]

InitConcurrent ==
  /\ InitProgram
  /\ probe = ConcurrentProbe

NextConcurrent ==
  \/ \E u \in Users, dl \in Downloads : handle_image_message(u, dl)
  \/ \E u \in Users, d \in Postbacks : handle_postback(u, d)
  \/ \E u \in Users, i \in Images, ct \in ContentTypes : Cache_set_user_image(u, i, ct)
  \/ \E u \in Users, d \in ClearPostbacks : ConcurrentClear(u, d)
  \/ ModelCall

SpecConcurrent == InitConcurrent /\ [][NextConcurrent]_vars

\* every model call returns
SpecConcurrentFair == SpecConcurrent /\ WF_vars(ModelCall)

\* ------------------------------------------------------------ properties
\* the model call made by a step that leaves a state with pc = "calling"
CallMade == IF pc' = "calling" THEN prev' ELSE done'.last_call

ValidResponse(resp) == resp.exc = "none" /\ resp.form = "json" /\ model_validate_ok(resp.data)

SchemaInvalid(resp) == resp.exc = "none" /\ resp.form = "json" /\ ~model_validate_ok(resp.data)

GetCachedIn(diag, t, key) ==
  IF diag[key].has /\ t < diag[key].exp
  THEN [has |-> TRUE, val |-> model_validate_json(diag[key].val)]
  ELSE Absent

\* a process_diagnosis that found an image starts in this step
RunStarts(u) == pc = "idle" /\ started'[u] = started[u] + 1

\* C1: a run whose request key has a live cache entry R returns R and calls no
\* model; a run that succeeded through a model leaves its result in the cache
\* under its key, and a live entry keeps its value, so that a second run with
\* the same inputs within the TTL returns a result equal to the first
C1_IdempotentCache ==
  [][ /\ \A u \in Users :
           (RunStarts(u) /\ get_cached_diagnosis(RequestKey(u)).has)
             => /\ pc' = "idle"
                /\ done'.kind = "cache_hit"
                /\ done'.result = get_cached_diagnosis(RequestKey(u)).val
                /\ done'.ncalls = 0
      /\ done'.kind = "diagnosed"
           => GetCachedIn(redis_diagnosis', now', done'.key)
                = [has |-> TRUE, val |-> done'.result]
      /\ \A k \in DiagnosisKeys :
           (get_cached_diagnosis(k).has /\ GetCachedIn(redis_diagnosis', now', k).has)
             => GetCachedIn(redis_diagnosis', now', k) = get_cached_diagnosis(k)
    ]_vars

C1_Witness ==
  /\ done.kind = "cache_hit"
  /\ done.ncalls = 0
  /\ done.result.confidence_level = 85

\* C2 as stated: a run served from the cache leaves the rate counter unchanged
C2_CacheHitKeepsCounter ==
  done.kind = "cache_hit" => done.rate_after = done.rate_before

\* C2 amended: a run served from the cache increments the user's current-hour
\* rate counter by exactly one
C2_CacheHitCounts ==
  done.kind = "cache_hit" => done.rate_after = done.rate_before + 1

C2_Witness ==
  /\ done.kind = "cache_hit"
  /\ done.rate_before = 1
  /\ done.rate_after = 2

\* C3 as stated: every run that made a model call increments the counter once,
\* also when it fails
C3_DispatchCountsOnce ==
  done.ncalls > 0 => done.rate_after = done.rate_before + 1

\* C3 amended: a run that made model calls increments the counter exactly once
\* when it ends with a validated result, whatever the number of calls, and
\* leaves it unchanged when every model is exhausted
C3_SuccessCountsOnce ==
  done.ncalls > 0 =>
    done.rate_after = done.rate_before + (IF done.kind = "diagnosed" THEN 1 ELSE 0)

C3_Witness ==
  /\ done.kind = "diagnosed"
  /\ done.ncalls > 2
  /\ done.last_call.model = NumModels
  /\ done.rate_after = done.rate_before + 1

\* C4: a user never has more than max_requests_per_hour diagnosis runs started
\* within one hour bucket
C4_RunsBoundedPerHour ==
  \A u \in Users : started[u] <= MaxRequestsPerHour

\* C5: a run that fails leaves no cache entry under its key, and the cache is
\* written only by the step in which a model response validated
C5_FailureWritesNoCache ==
  [][ /\ done'.kind = "gemini_error"
           => /\ ~GetCachedIn(redis_diagnosis', now', done'.key).has
              /\ redis_diagnosis' = redis_diagnosis
      /\ \A k \in DiagnosisKeys :
           (redis_diagnosis'[k].has /\ redis_diagnosis'[k] # redis_diagnosis[k])
             => /\ pc = "calling"
                /\ ValidResponse(CallMade.response)
                /\ done'.kind = "diagnosed"
                /\ done'.key = k
    ]_vars

C5_Witness ==
  /\ done.kind = "gemini_error"
  /\ done.ncalls = NumModels * MaxRetries
  /\ done.last_call.response.exc = "ServiceUnavailable"
  /\ ~get_cached_diagnosis(done.key).has

\* C6: after a quota-exceeded answer the same model is not called again: the
\* next call, if any, is the first attempt on the next model, and a primary
\* that answers quota-exceeded has been called exactly once by then
C6_QuotaSwitchesModel ==
  [][ /\ (pc = "calling" /\ ncalls > 0 /\ prev.response.exc = "ResourceExhausted")
           => /\ CallMade.model = prev.model + 1
              /\ CallMade.attempt = 0
              /\ (prev.model = 1 /\ prev.attempt = 0) => ncalls = 1
      /\ (pc = "calling" /\ CallMade.response.exc = "ResourceExhausted")
           => IF model_idx < NumModels
              THEN pc' = "calling" /\ model_idx' = model_idx + 1 /\ attempt' = 0
              ELSE pc' = "idle" /\ done'.kind = "gemini_error"
    ]_vars

C6_Witness ==
  /\ pc = "calling"
  /\ ncalls = 1
  /\ prev.model = 1
  /\ prev.response.exc = "ResourceExhausted"
  /\ model_idx = 2
  /\ attempt = 0

\* C7 as stated: after a service-unavailable answer the next call goes to the
\* next model
C7_UnavailableSwitchesModel ==
  [][ (pc = "calling" /\ ncalls > 0 /\ prev.response.exc = "ServiceUnavailable")
        => (CallMade.model = prev.model + 1 /\ CallMade.attempt = 0)
    ]_vars

\* C7 amended: after a service-unavailable answer the same model is retried
\* while attempts remain; the next model is tried only after the last attempt
C7_UnavailableRetries ==
  [][ (pc = "calling" /\ ncalls > 0 /\ prev.response.exc = "ServiceUnavailable")
        => IF prev.attempt < MaxRetries - 1
           THEN CallMade.model = prev.model /\ CallMade.attempt = prev.attempt + 1
           ELSE CallMade.model = prev.model + 1 /\ CallMade.attempt = 0
    ]_vars

C7_Witness ==
  /\ pc = "calling"
  /\ prev.response.exc = "ServiceUnavailable"
  /\ prev.attempt = 0
  /\ model_idx = prev.model
  /\ attempt = 1

\* C8: after a response that is not JSON, while attempts remain, the next call
\* is the next attempt on the same model; if that call returns schema-valid
\* JSON the run ends there with that result and no later model is called
C8_BadJsonRetriesSameModel ==
  [][ (pc = "calling" /\ ncalls > 0 /\ prev.response.form = "nonjson"
         /\ prev.attempt < MaxRetries - 1)
        => /\ CallMade.model = prev.model
           /\ CallMade.attempt = prev.attempt + 1
           /\ ValidResponse(CallMade.response)
                => /\ pc' = "idle"
                   /\ done'.kind = "diagnosed"
                   /\ done'.result = DiagnosisResultOf(CallMade.response.data)
                   /\ done'.last_call.model = prev.model
                   /\ done'.ncalls = ncalls + 1
    ]_vars

C8_Witness ==
  /\ done.kind = "diagnosed"
  /\ done.ncalls = 2
  /\ done.before_last.response.form = "nonjson"
  /\ done.before_last.model = 1
  /\ done.last_call.model = 1
  /\ done.last_call.attempt = 1

\* C9: a response that is JSON but fails validation ends the attempts on its
\* model: the next call is the first attempt on the next model, and the run
\* fails only when the model just abandoned was the last of the list
C9_SchemaInvalidSwitchesModel ==
  [][ /\ (pc = "calling" /\ ncalls > 0 /\ SchemaInvalid(prev.response))
           => (CallMade.model = prev.model + 1 /\ CallMade.attempt = 0)
      /\ (pc = "calling" /\ SchemaInvalid(CallMade.response))
           => IF model_idx < NumModels
              THEN pc' = "calling" /\ model_idx' = model_idx + 1 /\ attempt' = 0
              ELSE pc' = "idle" /\ done'.kind = "gemini_error"
      /\ done'.kind = "gemini_error" => done'.last_call.model = NumModels
    ]_vars

C9_Witness ==
  /\ pc = "calling"
  /\ SchemaInvalid(prev.response)
  /\ prev.attempt = 0
  /\ model_idx = prev.model + 1
  /\ attempt = 0

\* C10 as stated: when every model is exhausted the error raised has
\* retryable = false and carries the last failure
C10_ExhaustedNotRetryable ==
  done.kind = "gemini_error"
    => /\ done.error.retryable = FALSE
       /\ done.error.message = Attempt(done.last_call.response, done.last_call.attempt).error.message

\* C10 amended: when every model is exhausted diagnose raises the last failure
\* observed, with that failure's detail and that failure's retryable flag,
\* which is false only when the last failure was a schema-validation failure
C10_ExhaustedRaisesLastFailure ==
  done.kind = "gemini_error"
    => /\ done.error = Attempt(done.last_call.response, done.last_call.attempt).error
       /\ done.error.retryable = ~SchemaInvalid(done.last_call.response)

C10_Witness ==
  /\ done.kind = "gemini_error"
  /\ done.error.retryable = TRUE
  /\ done.last_call.response.exc = "ResourceExhausted"

\* C11: every result that diagnose returned, that the result cache stores or
\* that the last-result slot holds has 0 <= confidence_level <= 100; a model
\* output with a confidence outside the range is rejected as a validation
\* failure (non-retryable): the call produces no result and writes nothing
ConfidenceInRange(c) == c >= 0 /\ c <= 100

C11_ConfidenceBounded ==
  /\ [](/\ \A k \in DiagnosisKeys :
             redis_diagnosis[k].has
               => ConfidenceInRange(model_validate_json(redis_diagnosis[k].val).confidence_level)
        /\ \A u \in Users :
             diagnosis_cache[u].has
               => ConfidenceInRange(diagnosis_cache[u].val.confidence_level)
        /\ done.kind \in {"diagnosed", "cache_hit"}
             => ConfidenceInRange(done.result.confidence_level))
  /\ [][ (/\ pc = "calling"
          /\ CallMade.response.form = "json"
          /\ CallMade.response.data.complete
          /\ ~ConfidenceInRange(CallMade.response.data.confidence_level))
         => /\ done'.kind # "diagnosed"
            /\ UNCHANGED <<redis_diagnosis, diagnosis_cache>>
            /\ (IF pc' = "calling" THEN last_error' ELSE done'.error)
                 = GeminiAPIError("Response validation failed", FALSE)
     ]_vars

C11_Witness ==
  /\ done.kind = "diagnosed"
  /\ done.before_last.response.form = "json"
  /\ done.before_last.response.data.confidence_level = 150
  /\ done.before_last.model = 1
  /\ done.last_call.model = 2
  /\ done.result.confidence_level = 85
  /\ diagnosis_cache[done.user].val.confidence_level = 85

\* C12: for every user and limit N: with fewer than N increment calls in the
\* current hour bucket check_rate_limit returns (allowed, N - calls); with N
\* calls (or more) it returns (not allowed, 0); and right after the hour
\* boundary it returns (allowed, N) again. Both rate limiters; CacheService
\* also when called without a limit, N being the configured limit
RateLimits == 1..(MaxRequestsPerHour + 1)

RateAnswer(calls, N) ==
  IF calls < N THEN [is_allowed |-> TRUE, remaining |-> N - calls]
               ELSE [is_allowed |-> FALSE, remaining |-> 0]

C12_RateLimitBoundary ==
  /\ [](\A u \in RateUsers :
          /\ \A N \in RateLimits :
               /\ Session_check_rate_limit(u, N)
                    = RateAnswer(probe.calls["session"][u][current_hour], N)
               /\ Cache_check_rate_limit(u, N)
                    = RateAnswer(probe.calls["cache"][u][current_hour], N)
          /\ Cache_check_rate_limit(u, 0)
               = RateAnswer(probe.calls["cache"][u][current_hour], MaxRequestsPerHour))
  /\ [][ current_hour' # current_hour
          => \A u \in RateUsers :
               /\ \A N \in RateLimits :
                    /\ Session_check_rate_limit(u, N)' = [is_allowed |-> TRUE, remaining |-> N]
                    /\ Cache_check_rate_limit(u, N)' = [is_allowed |-> TRUE, remaining |-> N]
               /\ Cache_check_rate_limit(u, 0)'
                    = [is_allowed |-> TRUE, remaining |-> MaxRequestsPerHour]
     ]_vars

\* a user who used up the limit in the previous hour is allowed again in full,
\* while another user sits at the limit in the current hour
C12_Witness ==
  /\ probe.op = "rate"
  /\ current_hour >= 1
  /\ probe.calls["cache"]["u1"][current_hour - 1] = MaxRequestsPerHour
  /\ Cache_check_rate_limit("u1", 0) = [is_allowed |-> TRUE, remaining |-> MaxRequestsPerHour]
  /\ probe.calls["session"]["u2"][current_hour] = 1
  /\ Session_check_rate_limit("u2", 1) = [is_allowed |-> FALSE, remaining |-> 0]
  /\ Session_check_rate_limit("u1", 1) = [is_allowed |-> TRUE, remaining |-> 1]

StoreDefault(kind) ==
  CASE kind = "state" -> "IDLE"
    [] kind = "image" -> Absent
    [] kind = "info" -> EmptyUserInfo

\* what the last write promises at this moment: its value until the TTL has
\* elapsed, the default from then on
StoreExpected(kind, w) ==
  IF w.has /\ now < w.exp
  THEN (IF kind = "image" THEN [has |-> TRUE, val |-> w.val] ELSE w.val)
  ELSE StoreDefault(kind)

CacheExpected(w) == IF w.has /\ now < w.exp THEN [has |-> TRUE, val |-> w.val] ELSE Absent

\* C15: get_cached_diagnosis with the key inputs of the last cache_diagnosis
\* returns a result equal to the stored one at every moment before the TTL of
\* that put has elapsed, and absent at every moment from then on until a new
\* put with the same key inputs; key inputs never put are absent.
C15_ReadYourWrite ==
  (probe.op = "cache") =>
    /\ \A req \in CacheRequests :
         get_cached_diagnosis(KeyOf(req)) = CacheExpected(probe.last[req])
    /\ probe.got.has => probe.got.val = CacheExpected(probe.last[probe.got.req])

\* a result put for the default TTL has expired and is read as absent, while
\* one put for two hours under other key inputs is still returned
C15_Witness ==
  /\ probe.op = "cache"
  /\ probe.got.has
  /\ probe.last[probe.got.req].has
  /\ now >= probe.last[probe.got.req].exp
  /\ ~probe.got.val.has
  /\ \E req \in CacheRequests :
       /\ probe.last[req].has
       /\ now < probe.last[req].exp
       /\ get_cached_diagnosis(KeyOf(req)).has
       /\ get_cached_diagnosis(KeyOf(req)).val = probe.last[req].val


\* the step clears u's session: a new_diagnosis or retry postback, or a run
\* that found no stored image
SessionCleared(u) ==
  \/ \E d \in ClearPostbacks : handle_postback(u, d)
  \/ done'.kind = "session_expired" /\ done'.user = u

\* C16: a step that clears a user's session leaves no previous result for
\* that user, so that show_diagnosis and show_treatment answer 'no result
\* found'; the result becomes available again only by a diagnosis that
\* succeeds.
C16_ClearDropsResult ==
  [][ \A u \in Users :
        /\ SessionCleared(u) => ~diagnosis_cache'[u].has
        /\ (~diagnosis_cache[u].has /\ diagnosis_cache'[u].has)
             => (done'.kind \in {"diagnosed", "cache_hit"} /\ done'.user = u) ]_vars


\* C17: POST /webhook answers 400 whenever the signature header is missing or
\* does not verify against the body, and then no event handler has run; it
\* answers 200 only for a request whose signature verified.
C17_WebhookSignature ==
  (probe.op = "webhook" /\ probe.served > 0) =>
    /\ (probe.req.signature = << >> \/ ~SignatureVerifies(probe.req))
         => (probe.response.status_code = 400 /\ probe.response.handled = 0)
    /\ probe.response.status_code = 200 => SignatureVerifies(probe.req)


\* the bytes decode as a valid image of a supported format
DecodesAsSupported(img) == img.format \in SupportedFileFormats /\ ~img.truncated

\* C18: validate_image accepts an input if and only if its declared MIME type
\* is supported, its length does not exceed the maximum, and its bytes decode
\* as a valid image of a supported format; every other input raises
\* ImageValidationError for one of these three reasons, and optimize_image is
\* not run on it.
C18_ValidateAccepts ==
  (probe.op = "image" /\ probe.applied) =>
    /\ probe.result.validation.ok
         <=> (/\ probe.content_type \in SUPPORTED_FORMATS
              /\ probe.image.size <= MaxSizeBytes
              /\ DecodesAsSupported(probe.image))
    /\ ~probe.result.validation.ok
         => (/\ probe.result.raised = "ImageValidationError"
             /\ probe.result.validation.error
                  \in {"Unsupported format", "Image too large", "Invalid image"}
             /\ ~probe.result.optimized)

\* C19: for every image accepted by validation, normalization comes out with
\* max(width, height) <= max_dimension and a payload of at most max_size_bytes;
\* an image (as oriented) with both sides within max_dimension keeps them, a
\* larger one has its larger side equal to max_dimension and the other scaled
\* by the same ratio.
C19_NormalizedBounds ==
  (probe.op = "image" /\ probe.applied /\ probe.result.validation.ok) =>
    LET in == exif_transpose(probe.image)
        out == probe.result.out
    IN /\ probe.result.raised = "None"
       /\ out.width >= 1 /\ out.height >= 1
       /\ out.width <= MaxDimension /\ out.height <= MaxDimension
       /\ out.size <= MaxSizeBytes
       /\ (in[1] <= MaxDimension /\ in[2] <= MaxDimension)
            => (out.width = in[1] /\ out.height = in[2])
       /\ (in[1] > MaxDimension \/ in[2] > MaxDimension)
            => IF in[1] > in[2]
               THEN out.width = MaxDimension /\ out.height = (in[2] * MaxDimension) \div in[1]
               ELSE out.height = MaxDimension /\ out.width = (in[1] * MaxDimension) \div in[2]


\* the entries of the two keyword tables
KeywordEntries ==
  { thai_mappings[i] : i \in 1..Len(thai_mappings) }
    \cup { english_mappings[i] : i \in 1..Len(english_mappings) }

\* C20: parse_plant_type returns the plant type its keyword table assigns to
\* a keyword the text contains, and None when the text contains no known
\* keyword; a text that is itself a keyword is resolved to its own entry even
\* if it contains a shorter keyword: khao-phot gives CORN, not RICE, and
\* man-sampalang gives CASSAVA.
C20_KeywordResolved ==
  (probe.op = "parse" /\ probe.applied) =>
    LET text_lower == LowerStrip(probe.text)
        contained == { e \in KeywordEntries : Contains(text_lower, e.key) }
        names == { enum_names[i] : i \in 1..Len(enum_names) }
    IN /\ probe.result # "None"
            => \E e \in contained \cup { n \in names : n.key = text_lower } :
                 e.plant_type = probe.result
       /\ (contained = {} /\ \A n \in names : n.key # text_lower) => probe.result = "None"
       /\ \A e \in KeywordEntries : text_lower = e.key => probe.result = e.plant_type


\* calls made to model m so far
CallsTo(m) == Cardinality({ i \in 1..Len(probe.calls) : probe.calls[i].model = m })

\* C21: one diagnose run calls each configured model at most max_retries
\* times, so makes at most len(fallback_models) x max_retries calls, and,
\* every model call returning, ends with a validated result or an error.
C21_BoundedCalls ==
  /\ [](probe.op = "diagnose" =>
          /\ \A m \in Models : CallsTo(m) <= MaxRetries
          /\ Len(probe.calls) <= NumModels * MaxRetries
          /\ Len(probe.calls) = ncalls
          /\ probe.status = "returned"
               => (probe.result # NoResult /\ ConfidenceInRange(probe.result.confidence_level))
          /\ probe.status = "raised" => probe.error # NoError)
  /\ ((probe.op = "diagnose" /\ probe.status = "running")
        ~> (probe.status \in {"returned", "raised"} /\ pc = "idle"))

\* every model has been called max_retries times and the run has raised
C21_Witness ==
  /\ probe.op = "diagnose"
  /\ probe.status = "raised"
  /\ Len(probe.calls) = NumModels * MaxRetries
  /\ \A m \in Models : CallsTo(m) = MaxRetries

\* C22: the calls of one diagnose run follow the configured order: calls to an
\* earlier model all precede calls to a later one, a model left behind is not
\* called again, and no call follows the first response that validates.
C22_ListOrder ==
  (probe.op = "diagnose") =>
    /\ \A i, j \in 1..Len(probe.calls) :
         i < j => probe.calls[i].model <= probe.calls[j].model
    /\ \A i \in 1..Len(probe.calls) : probe.calls[i].valid => i = Len(probe.calls)
    /\ (probe.calls # << >> /\ probe.calls[Len(probe.calls)].valid)
         => probe.status = "returned"
    /\ (pc = "calling" /\ probe.calls # << >>)
         => model_idx >= probe.calls[Len(probe.calls)].model

\* the first model failed and a later model answered with a response
\* that validated, which ended the run
C22_Witness ==
  /\ probe.op = "diagnose"
  /\ probe.status = "returned"
  /\ Len(probe.calls) > 2
  /\ probe.calls[1].model = 1
  /\ probe.calls[Len(probe.calls)].model = NumModels
  /\ probe.calls[Len(probe.calls)].valid

\* failures after which the same model may be tried again
RetryableFailure(resp) ==
  \/ resp.exc \in {"ServiceUnavailable", "Exception"}
  \/ resp.exc = "none" /\ resp.form \in {"empty", "nonjson"}

C24_NoImageNoWork ==
  [][\A u \in Users :
       (RunDiagnosis(u) /\ ~Cache_get_user_image(u).has) =>
         /\ redis_diagnosis' = redis_diagnosis
         /\ redis_rate' = redis_rate
         /\ diagnosis_cache' = diagnosis_cache
         /\ started' = started
         /\ pc' = "idle" /\ ncalls' = ncalls /\ prev' = prev
         /\ done'.kind = "session_expired" /\ done'.user = u
         /\ done'.push = "session_expired"
         /\ done'.key = NoRun.key /\ done'.result = NoResult
         /\ Cache_get_user_state(u)' = "IDLE"
         /\ ~Cache_get_user_image(u)'.has
         /\ Cache_get_user_info(u)' = EmptyUserInfo]_vars

\* the user's session ran out after a diagnosis of theirs had succeeded, and
\* process_diagnosis then ran for them again
C24_Witness ==
  \E u \in Users :
    /\ done.kind = "session_expired"
    /\ done.user = u
    /\ now > 0
    /\ diagnosis_cache[u].has
    /\ ~Cache_get_user_image(u).has


\* C25: an image message that is rejected (rate limit exceeded, download
\* failed, validation failed) leaves the stored image, user info,
\* conversation state and rate counters of every user as they were; an
\* accepted one stores the processed image for its user, sets that user's
\* state to WAITING_FOR_PLANT_TYPE and changes nothing else of the session.
C25_RejectedImageKeepsSession ==
  [][\A u \in RateUsers, dl \in Downloads :
       handle_image_message(u, dl) =>
         IF ~Session_check_rate_limit(u, MaxRequestsPerHour).is_allowed \/ ~dl.ok
         THEN UNCHANGED <<user_images, user_info, user_states, rate_limits, redisVars>>
         ELSE /\ Session_get_user_image(u)'.has
              /\ Session_get_user_image(u)'.val =
                   [image_data |-> dl.image_data, content_type |-> dl.content_type]
              /\ Session_get_user_state(u)' = "WAITING_FOR_PLANT_TYPE"
              /\ \A v \in RateUsers \ {u} :
                   user_images'[v] = user_images[v] /\ user_states'[v] = user_states[v]
              /\ UNCHANGED <<user_info, rate_limits, redisVars>>]_vars

\* an image message has just been refused for a user who is over the limit
\* and has a pending image, a chosen plant type and the state
\* WAITING_FOR_PLANT_PART
C25_Witness ==
  \E u \in RateUsers :
    /\ probe.op = "session"
    /\ reply = "rate_limit_exceeded"
    /\ rate_limits[u][current_hour] >= MaxRequestsPerHour
    /\ Session_get_user_image(u).has
    /\ Session_get_user_info(u).plant_type # "None"
    /\ Session_get_user_state(u) = "WAITING_FOR_PLANT_PART"


\* C30: clear_user_session removes the state, image and info entries of its
\* user and nothing else: the rate counters of every user and the session
\* entries of every other user stay as they were, in the in-memory store
\* (cleared by a new_diagnosis or retry postback) and in the Redis store
\* (cleared on the session-expired path) alike.
C30_ClearKeepsCounters ==
  [][\A u \in RateUsers :
       /\ (\E d \in ClearPostbacks : handle_postback(u, d)) =>
            /\ user_states'[u] = Absent /\ user_images'[u] = Absent /\ user_info'[u] = Absent
            /\ \A v \in RateUsers \ {u} :
                 /\ user_states'[v] = user_states[v]
                 /\ user_images'[v] = user_images[v]
                 /\ user_info'[v] = user_info[v]
            /\ UNCHANGED <<rate_limits, redisVars, diagnosis_cache>>
       /\ ((\E d \in SessionPostbacks : handle_postback(u, d))
             /\ done'.kind = "session_expired") =>
            /\ redis_state'[u] = Absent /\ redis_image'[u] = Absent /\ redis_info'[u] = Absent
            /\ \A v \in RateUsers \ {u} :
                 /\ redis_state'[v] = redis_state[v]
                 /\ redis_image'[v] = redis_image[v]
                 /\ redis_info'[v] = redis_info[v]
            /\ UNCHANGED <<rate_limits, redis_rate, redis_diagnosis, diagnosis_cache>>]_vars

\* a user whose counter has reached the limit has just had the session
\* cleared by a postback: the counter still refuses the next image, and
\* the other user's pending image is still there
C30_Witness ==
  \E u \in RateUsers :
    /\ probe.op = "session"
    /\ reply = "send_image_prompt"
    /\ ~user_states[u].has /\ ~user_images[u].has /\ ~user_info[u].has
    /\ rate_limits[u][current_hour] >= MaxRequestsPerHour
    /\ ~Session_check_rate_limit(u, MaxRequestsPerHour).is_allowed
    /\ \E v \in RateUsers \ {u} : Session_get_user_image(v).has

\* the Redis session of a user has just been cleared on the session-expired
\* path while that user's Redis counter and the other user's Redis info stay
C30_WitnessRedis ==
  \E u \in RateUsers :
    /\ probe.op = "session"
    /\ done.kind = "session_expired" /\ done.user = u
    /\ ~redis_info[u].has
    /\ RateCountIn(redis_rate, now, u) > 0
    /\ \E v \in RateUsers \ {u} : redis_info[v].has


\* process_diagnosis was entered in this step
DiagnosisStarted == pc' = "calling" \/ done'.kind \in {"session_expired", "cache_hit"}

\* C29: a diagnosis run starts only for a user in WAITING_FOR_PLANT_PART with
\* a pending image; a plant_type or plant_part event, text or postback, that
\* arrives in IDLE, PROCESSING or COMPLETED starts no diagnosis and leaves
\* the conversation state alone; WAITING_FOR_IMAGE is never entered.
C29_RunOnlyWhenWaitingForPart ==
  /\ [](\A u \in Users : Session_get_user_state(u) # "WAITING_FOR_IMAGE")
  /\ [][\A u \in Users :
          LET state == Session_get_user_state(u)
              event == \/ \E d \in Postbacks : /\ d.key \in {"plant_type", "plant_part"}
                                               /\ handle_postback(u, d)
                       \/ \E t \in Texts : /\ ~is_greeting(t) /\ ~is_help_request(t)
                                           /\ handle_text_message(u, t)
          IN
          /\ (event /\ DiagnosisStarted /\ pc = "idle") =>
               (state = "WAITING_FOR_PLANT_PART" /\ Session_get_user_image(u).has)
          /\ (event /\ state \in {"IDLE", "PROCESSING", "COMPLETED"}) =>
               (Session_get_user_state(u)' = state /\ ~DiagnosisStarted)]_vars


\* C27: PROCESSING is transient: once _proceed_to_diagnosis has returned for
\* a user, the state the event handlers read for that user is COMPLETED
\* after a successful diagnosis and IDLE after a failed one or an expired
\* session, never PROCESSING.
C27_ProcessingIsTransient ==
  (pc = "idle") =>
    \A u \in Users :
      /\ Session_get_user_state(u) # "PROCESSING"
      /\ (done.user = u /\ done.kind \in {"diagnosed", "cache_hit"})
           => Session_get_user_state(u) = "COMPLETED"
      /\ (done.user = u /\ done.kind \in {"gemini_error", "session_expired"})
           => Session_get_user_state(u) = "IDLE"

\* the event starts a diagnosis for u: a plant_part postback, or a text
\* while u is in WAITING_FOR_PLANT_PART
StartsDiagnosis(u) ==
  \/ \E d \in Postbacks : d.key = "plant_part" /\ handle_postback(u, d)
  \/ \E t \in Texts : /\ ~is_greeting(t) /\ ~is_help_request(t)
                      /\ Session_get_user_state(u) = "WAITING_FOR_PLANT_PART"
                      /\ handle_text_message(u, t)

\* C28: when the image handler has stored an image for a user and the
\* session has neither expired nor been cleared since, the diagnosis started
\* for that user does not take the session-expired path: it reads that
\* image and the plant type and plant part the user selected.
C28_DiagnosisFindsStoredImage ==
  [][\A u \in Users :
       (StartsDiagnosis(u) /\ Session_get_user_image(u).has) =>
         /\ done'.kind # "session_expired"
         /\ Cache_get_user_image(u).has
         /\ Cache_get_user_image(u).val = Session_get_user_image(u).val
         /\ Cache_get_user_info(u).plant_type = Session_get_user_info(u)'.plant_type
         /\ Cache_get_user_info(u).plant_part = Session_get_user_info(u)'.plant_part]_vars


\* C26: a new_diagnosis or retry postback handled while the same user's
\* diagnosis is in flight only resets that user's session: the run keeps its
\* place, nothing else changes the session while it is in flight, it ends
\* with a result or an error that is pushed to the user and leaves the
\* session as the postback left it (state IDLE, no pending image).
C26_PostbackDuringDiagnosis ==
  /\ [][\A u \in Users :
          /\ (\E d \in ClearPostbacks : ConcurrentClear(u, d)) =>
               /\ UNCHANGED <<pc, cur, model_idx, attempt, last_error, ncalls, redisVars,
                              diagnosis_cache, rate_limits>>
               /\ Session_get_user_state(u)' = "IDLE"
               /\ ~Session_get_user_image(u)'.has
               /\ Session_get_user_info(u)' = EmptyUserInfo
          /\ (pc = "calling" /\ cur.user = u /\ pc' = "idle") =>
               /\ done'.user = u
               /\ done'.kind \in {"diagnosed", "gemini_error"}
               /\ done'.push # "None"
               /\ UNCHANGED sessVars]_vars
  /\ \A u \in Users :
       (pc = "calling" /\ cur.user = u) ~> (pc = "idle" /\ done.user = u)

\* a run that was started with a pending image has ended with a diagnosis,
\* and the session was reset by a postback while it was in flight
C26_Witness ==
  \E u \in Users :
    /\ probe.op = "concurrent"
    /\ pc = "idle"
    /\ done.kind = "diagnosed" /\ done.user = u
    /\ done.ncalls > 1
    /\ diagnosis_cache[u].has
    /\ ~user_states[u].has /\ ~user_images[u].has
    /\ Session_get_user_state(u) = "IDLE"

====
